---- MODULE Spec2Model ----
(***************************************************************************)
(* Monthly remote-sensing aggregation scripts of the Lake Tana water       *)
(* hyacinth assessment: the optical Landsat / Sentinel-2 area scripts, the *)
(* Sentinel-1 radar script, the hybrid-fusion script, and the CHIRPS       *)
(* rainfall and AgERA5 temperature/humidity scripts.                       *)
(*                                                                         *)
(* One behaviour is one run of one script.  Each action is one remote      *)
(* request (a getInfo call) together with the local code that follows it   *)
(* up to the next remote request.  The remote service is the environment:  *)
(* the images it holds for a month, the value a reduction returns, and     *)
(* whether a request raises are chosen nondeterministically.               *)
(*                                                                         *)
(* Units: cloud percentages are held in thousandths of a percent, areas    *)
(* returned by the service in square metres, rounded table cells in        *)
(* hundredths (of a percent, of a square kilometre).                       *)
(***************************************************************************)
EXTENDS Integers, Sequences, FiniteSets, TLC

(***************************************************************************)
(* Bounds of the model                                                     *)
(***************************************************************************)
\* number of years of each script's year range that a run covers
NumYears == 2
\* number of remote responses per run that depart from the nominal one
\* (images present, reduction positive, request succeeds)
MaxAnomalies == 2
\* area in square metres of one cell of the region grid the masks live on
CellArea == 1250000
\* number of records in an arbitrarily ordered result list (SortSpec)
MaxSortLen == 3

(***************************************************************************)
(* Scripts                                                                 *)
(***************************************************************************)
LandsatScripts == {"FAI_Landsat", "NDVI_FAI_Landsat", "NDWI_FAI_Landsat"}
SentinelScripts == {"NDVI_FAI_Sentinel", "FAI_NDVI_SWIR_Sentinel"}
OpticalScripts == LandsatScripts \cup SentinelScripts
RadarScript == "Radar_Sentinel1"
HybridScript == "HybridFusion"
RainfallScript == "Rainfall_CHIRPS"
TemperatureScript == "Temperature_Humidity"
AreaScripts == OpticalScripts \cup {RadarScript, HybridScript}
ClimateScripts == {RainfallScript, TemperatureScript}
\* the scripts built around the loop over (year, month)
MonthlyScripts == AreaScripts \cup ClimateScripts
EvapScript == "Evapotranspiration"
WaterLevelScript == "Water_Level_Hydroweb"
\* the single-month raster export script
ExportImageScript == "NDVI_FAI_Sentinel_Export_Image"
Scripts == MonthlyScripts \cup {EvapScript, WaterLevelScript, ExportImageScript}

\* first year of the script's year range
FirstYear(s) ==
    CASE s \in LandsatScripts -> 2013
      [] s \in SentinelScripts -> 2016
      [] s = RadarScript -> 2014
      [] s = HybridScript -> 2016
      [] s \in ClimateScripts -> 2013
      [] s \in {EvapScript, WaterLevelScript} -> 2013

\* a month list that names a month twice
MonthsRepeated == <<10, 11, 11>>

\* months = [10, 11, 12]
Months == <<10, 11, 12>>

NumJobs == NumYears * Len(Months)

\* the years iterated from the last to the first
JobYearDescending(s, i) == FirstYear(s) + (NumYears - 1) - ((i - 1) \div Len(Months))

\* the year and the month of the i-th iteration of
\*   for year in years: for month in months:
JobYear(s, i) == FirstYear(s) + ((i - 1) \div Len(Months))
JobMonth(i) == Months[((i - 1) % Len(Months)) + 1]

(***************************************************************************)
(* Python values                                                           *)
(***************************************************************************)
\* an optional value: <<>> is None, <<v>> is the value v
None == <<>>
Some(v) == <<v>>
IsNone(o) == o = <<>>
Val(o) == o[1]

\* a table cell whose Python type varies from row to row
NumCell(n) == [tag |-> "num", num |-> n, str |-> <<>>]
StrCell(s) == [tag |-> "str", num |-> 0, str |-> s]
NoneCell == [tag |-> "none", num |-> 0, str |-> <<>>]
\* an unevaluated server-side number (ee.Number) whose evaluation yields o
LazyCell(o) == [tag |-> IF IsNone(o) THEN "eenull" ELSE "ee",
                num |-> IF IsNone(o) THEN 0 ELSE Val(o), str |-> <<>>]

\* round(x, 2) of x = n / unit hundredths: round half to even
Round2(n, unit) ==
    LET q == n \div unit
        r == n % unit
    IN  IF 2 * r < unit THEN q
        ELSE IF 2 * r > unit THEN q + 1
        ELSE IF q % 2 = 0 THEN q ELSE q + 1

(***************************************************************************)
(* Strings are sequences of character codes                                *)
(***************************************************************************)
Dash == 45
Zero == 48
Digit(n) == Zero + n

RECURSIVE DecStr(_)
\* str(n) for n >= 0
DecStr(n) == IF n < 10 THEN <<Digit(n)>> ELSE DecStr(n \div 10) \o <<Digit(n % 10)>>

RECURSIVE PadLeft(_, _)
PadLeft(s, w) == IF Len(s) >= w THEN s ELSE PadLeft(<<Zero>> \o s, w)

\* f'{n:02d}'
Fmt02d(n) == PadLeft(DecStr(n), 2)
\* '%04d'
Fmt04d(n) == PadLeft(DecStr(n), 4)

RECURSIVE ParseInt(_)
ParseInt(s) ==
    IF s = <<>> THEN 0
    ELSE 10 * ParseInt(SubSeq(s, 1, Len(s) - 1)) + (s[Len(s)] - Zero)

\* lexicographic order of Python str
RECURSIVE StrLess(_, _)
StrLess(a, b) ==
    IF b = <<>> THEN FALSE
    ELSE IF a = <<>> THEN TRUE
    ELSE IF Head(a) # Head(b) THEN Head(a) < Head(b)
    ELSE StrLess(Tail(a), Tail(b))

\* 'N/A' and 'Radar only'
StrNA == <<78, 47, 65>>
StrRadarOnly == <<82, 97, 100, 97, 114, 32, 111, 110, 108, 121>>

(***************************************************************************)
(* Calendar and date windows                                               *)
(***************************************************************************)
IsLeap(y) == (y % 4 = 0 /\ y % 100 # 0) \/ y % 400 = 0

\* calendar.monthrange(y, m)[1]
DaysInMonth(y, m) ==
    IF m = 2 THEN (IF IsLeap(y) THEN 29 ELSE 28)
    ELSE IF m \in {4, 6, 9, 11} THEN 30 ELSE 31

\* datetime.date(y, m, d).isoformat(); a date is <<y, m, d>>
IsoFormat(date) ==
    Fmt04d(date[1]) \o <<Dash>> \o Fmt02d(date[2]) \o <<Dash>> \o Fmt02d(date[3])

\* the date a 'YYYY-MM-DD' string denotes to filterDate
ParseDate(s) ==
    LET dashes == {i \in 1..Len(s) : s[i] = Dash}
        d1 == CHOOSE i \in dashes : \A j \in dashes : i <= j
        d2 == CHOOSE i \in dashes : \A j \in dashes : j <= i
    IN  <<ParseInt(SubSeq(s, 1, d1 - 1)),
          ParseInt(SubSeq(s, d1 + 1, d2 - 1)),
          ParseInt(SubSeq(s, d2 + 1, Len(s)))>>

DateLess(a, b) ==
    \/ a[1] < b[1]
    \/ a[1] = b[1] /\ a[2] < b[2]
    \/ a[1] = b[1] /\ a[2] = b[2] /\ a[3] < b[3]

\* filterDate(start, end): start inclusive, end exclusive
InWindow(date, start, end) ==
    /\ ~DateLess(date, ParseDate(start))
    /\ DateLess(date, ParseDate(end))

\* the first day written day first: f'01-{month:02d}-{year}'
OpticalStartDateDayFirst(y, m) ==
    <<Digit(0), Digit(1), Dash>> \o Fmt02d(m) \o <<Dash>> \o DecStr(y)

\* start_date = f'{year}-{month:02d}-01'
OpticalStartDate(y, m) ==
    DecStr(y) \o <<Dash>> \o Fmt02d(m) \o <<Dash, Digit(0), Digit(1)>>

\* end_date = f'{year}-{month:02d}-28' if month != 12 else f'{year}-{month:02d}-31'
OpticalEndDate(y, m) ==
    DecStr(y) \o <<Dash>> \o Fmt02d(m) \o
    (IF m # 12 THEN <<Dash, Digit(2), Digit(8)>> ELSE <<Dash, Digit(3), Digit(1)>>)

\* datetime.date(year, month, 1).isoformat()
CalendarStartDate(y, m) == IsoFormat(<<y, m, 1>>)

\* datetime.date(year, month, calendar.monthrange(year, month)[1]).isoformat()
CalendarEndDate(y, m) == IsoFormat(<<y, m, DaysInMonth(y, m)>>)

(***************************************************************************)
(* The remote service's data                                               *)
(***************************************************************************)
\* an image is <<day of the month, cloud percentage (thousandths)>>
MaxImages == 2
NominalDay == 15
NominalCloud == 12346
ImageDays(y, m) == {NominalDay, DaysInMonth(y, m)}
ImageClouds == {0, NominalCloud, 30000, 45000}
NominalImages == {<<NominalDay, NominalCloud>>}
\* the sets of images the archive may hold for month (y, m)
ImageSets(y, m) ==
    {S \in SUBSET (ImageDays(y, m) \X ImageClouds) : Cardinality(S) <= MaxImages}

\* the values a region reduction of a (mask x pixel area) image may return
NominalArea == 2534900
ReduceValues == {0, NominalArea}

\* the collection filtered by date alone
FilterDateOnly(imgs, y, m, start, end, limit) ==
    {im \in imgs : InWindow(<<y, m, im[1]>>, start, end)}

\* .filterDate(start, end).filter(ee.Filter.lt(<cloud property>, limit))
FilterCollection(imgs, y, m, start, end, limit) ==
    {im \in imgs : InWindow(<<y, m, im[1]>>, start, end) /\ im[2] < limit}

RECURSIVE SumClouds(_)
SumClouds(S) ==
    IF S = {} THEN 0
    ELSE LET im == CHOOSE x \in S : TRUE IN im[2] + SumClouds(S \ {im})

\* aggregate_mean(<cloud property>).getInfo(): None on an empty collection
AggregateMean(S) ==
    IF S = {} THEN None ELSE Some(SumClouds(S) \div Cardinality(S))

(***************************************************************************)
(* State                                                                   *)
(***************************************************************************)
VARIABLES
    script,        \* the script this run executes
    archive,       \* whether the remote archives hold images of the region at all
    pc,            \* the statement the run is at
    err,           \* the uncaught exception that ended the run, or ""
    idx,           \* index of the current (year, month) iteration
    results,       \* the list `results`
    exported,      \* the table written by to_excel: <<>> or <<rows>>
    anomalies,     \* number of non-nominal remote responses so far
    obs,           \* per iteration, what the remote service answered
    start_date,    \* start_date / start / first_day.isoformat()
    end_date,      \* end_date / end / last_day.isoformat()
    coll,          \* the filtered image collection of the month
    cloud,         \* cloud (optical), cloud_pct (hybrid)
    date_selected, \* date_selected (radar), s2_date (hybrid): day of the image
    optical_mask,  \* hybrid: <<>> or <<cells>>
    radar_mask,    \* hybrid: <<>> or <<cells>>
    final_mask,    \* hybrid: <<>> or <<cells>>
    source,        \* hybrid: the label chosen by the fusion logic
    vi,            \* temperature script: index of the current variable
    stat,          \* temperature script: min_val, max_val, mean_val so far
    started,       \* the (year, month) pairs the loop body was entered with, in order
    steps,         \* per iteration, the statements of the monthly function run so far
    roi_file,      \* the shapefile on the drive: "ok", "missing" or "malformed"
    roi,           \* roi / area_geom / study_area: "" until loaded, then where it came from
    fetched,       \* all_et_data (evapotranspiration), water_level_data (water level)
    frame,         \* combined_et (evapotranspiration), processed_df (water level)
    station,       \* water level: unique_candidates, then lake_tana_station_id
    attempt,       \* water level: index of the data endpoint tried next
    provenance,    \* where the rows of frame came from: "", "remote" or "synthetic"
    final_print,   \* what the last print of the run reports
    image,         \* the band values (digital numbers) of one pixel of an image
    indices,       \* the bands the script's per-image function adds: <<>> or <<bands>>
    composites,    \* the rasters thresholded so far: how each was made, and of what
    fai_mask,      \* the mask value of the pixel: <<>> or <<0>> or <<1>>
    tasks          \* raster export script: the export tasks started so far

jobVars == <<start_date, end_date, coll, cloud, date_selected,
             optical_mask, radar_mask, final_mask, source, vi, stat>>
pipeVars == <<fetched, frame, station, attempt, provenance>>
vars == <<script, archive, pc, err, idx, results, exported, anomalies, obs, jobVars,
          started, steps, roi_file, roi, pipeVars, final_print, image, indices,
          composites, fai_mask, tasks>>

Year == JobYear(script, idx)
Month == JobMonth(idx)

\* what the optical archive may hold for the month in this run, and the
\* nominal content
ArchiveImages(y, m) == IF archive = "void" THEN {{}} ELSE ImageSets(y, m)
ArchiveNominal == IF archive = "void" THEN {} ELSE NominalImages

ResetLocals ==
    /\ start_date' = <<>>
    /\ end_date' = <<>>
    /\ coll' = {}
    /\ cloud' = None
    /\ date_selected' = None
    /\ optical_mask' = None
    /\ radar_mask' = None
    /\ final_mask' = None
    /\ source' = ""
    /\ vi' = 1
    /\ stat' = <<>>

Init ==
    /\ script \in Scripts
    /\ archive \in {"covered", "void"}
    /\ pc = "start"
    /\ err = ""
    /\ idx = 1
    /\ results = <<>>
    /\ exported = None
    /\ anomalies = 0
    /\ obs = [i \in 1..NumJobs |-> {}]
    /\ start_date = <<>>
    /\ end_date = <<>>
    /\ coll = {}
    /\ cloud = None
    /\ date_selected = None
    /\ optical_mask = None
    /\ radar_mask = None
    /\ final_mask = None
    /\ source = ""
    /\ vi = 1
    /\ stat = <<>>
    /\ started = <<>>
    /\ steps = [i \in 1..NumJobs |-> <<>>]
    /\ roi_file \in {"ok", "missing", "malformed"}
    /\ roi = ""
    /\ fetched = <<>>
    /\ frame = <<>>
    /\ station = <<>>
    /\ attempt = 1
    /\ provenance = ""
    /\ final_print = [text |-> "", totals |-> <<>>]
    /\ image = [green |-> 0, red |-> 0, nir |-> 0, swir |-> 0]
    /\ indices = <<>>
    /\ composites = {}
    /\ fai_mask = <<>>
    /\ tasks = {}

\* the loop moves to its next (year, month), or falls through to the export
\* the loop falling through past the export step
NextJobSkipsExport ==
    /\ idx' = idx + 1
    /\ pc' = IF idx + 1 > NumJobs THEN "done" ELSE "loop"
    /\ ResetLocals

NextJob ==
    /\ idx' = idx + 1
    /\ pc' = IF idx + 1 > NumJobs THEN "export" ELSE "loop"
    /\ ResetLocals

\* an exception no handler catches ends the run
Abort(e) ==
    /\ pc' = "aborted"
    /\ err' = e
    /\ UNCHANGED <<idx, jobVars>>

\* the remote service answers; b says the answer is not the nominal one
Anomaly(b) ==
    /\ b => anomalies < MaxAnomalies
    /\ anomalies' = IF b THEN anomalies + 1 ELSE anomalies

Observe(tags) == obs' = [obs EXCEPT ![idx] = @ \cup tags]

\* the loop body is entered with (year, month)
StartJob == started' = Append(started, <<Year, Month>>)

\* the statements named are run in the current iteration
Did(names) == steps' = [steps EXCEPT ![idx] = @ \o names]

\* the raster of the month is made by method from images, of the collection
\* of that passed the month's filter
Composite(method, images, of) ==
    composites' = composites \cup {[method |-> method, images |-> images, of |-> of]}

\* the answers of a getInfo request: a value, or an exception raised
Responses == {"ok", "raise"}

(***************************************************************************)
(* Startup of the monthly scripts: the region of interest                  *)
(***************************************************************************)
\* gpd.read_file(path) raises when the file is missing or cannot be parsed
ReadFileRaises(f) == f # "ok"

\* gdf = gpd.read_file('.../Area_of_study_Bigger.shp');
\* roi = geemap.geopandas_to_ee(gdf)      (no try around them)
LoadROI ==
    /\ script \in MonthlyScripts \cup {ExportImageScript}
    /\ pc = "start"
    /\ IF ReadFileRaises(roi_file)
       THEN /\ pc' = "aborted"
            /\ err' = "DataSourceError"
            /\ UNCHANGED roi
       ELSE /\ roi' = "shapefile"
            /\ pc' = "loop"
            /\ UNCHANGED err
    /\ UNCHANGED final_print
    /\ UNCHANGED <<image, indices, fai_mask, tasks>>
    /\ UNCHANGED composites
    /\ UNCHANGED <<script, archive, idx, results, exported, anomalies, obs, jobVars,
                   started, steps, roi_file, pipeVars>>

(***************************************************************************)
(* The optical area scripts                                                *)
(***************************************************************************)
\* ee.Filter.lt('CLOUD_COVER', 20) / ee.Filter.lt('CLOUDY_PIXEL_PERCENTAGE', 20)
CloudLimit == 20000

\* the size test written  < 0
IsEmptyNegative(n) == n < 0

\* if ls.size().getInfo() == 0
IsEmpty(n) == n = 0

\* the scripts that read the reduction with stats.values().getInfo()
UsesValuesList(s) == s \in {"NDWI_FAI_Landsat", "FAI_NDVI_SWIR_Sentinel"}

\* what the script reads back when the reduction holds o (<<>> = null):
\* stats.get(band).getInfo() gives the value or None;
\* stats.values().getInfo() gives a list, which may be empty
ReduceReadings(s, o) ==
    IF UsesValuesList(s)
    THEN {<<o>>} \cup (IF IsNone(o) THEN {<<>>} ELSE {})
    ELSE {<<o>>}

\* the None check written as a truth test (if not area), which 0 fails too
NoValueFalsy(s, values) ==
    values = <<>> \/ IsNone(values[1]) \/ Val(values[1]) = 0

\* if fai_area_sqkm is None / if not values or values[0] is None
NoValue(s, values) ==
    IF UsesValuesList(s)
    THEN values = <<>> \/ IsNone(values[1])
    ELSE IsNone(values[1])

\* the dictionary the monthly function returns
OpticalRecord(y, m, start, cl, area) ==
    [Year |-> y, Month |-> m, Date |-> start,
     Cloud |-> Round2(Val(cl), 10), Area |-> Round2(area, 10000)]

\* the test written  if not result:
TruthyInverted(result) == DOMAIN result = {}

\* if result:   (a dict is true unless it is empty)
Truthy(result) == DOMAIN result # {}

\* start_date, end_date and the lazily filtered collection
OptBeginJob ==
    /\ script \in OpticalScripts
    /\ pc = "loop"
    /\ start_date' = OpticalStartDate(Year, Month)
    /\ end_date' = OpticalEndDate(Year, Month)
    /\ \E imgs \in ArchiveImages(Year, Month) :
         /\ Anomaly(imgs # ArchiveNominal)
         /\ coll' = FilterCollection(imgs, Year, Month, OpticalStartDate(Year, Month),
                                     OpticalEndDate(Year, Month), CloudLimit)
    /\ pc' = "size"
    /\ StartJob
    /\ Did(<<"filter">>)
    /\ UNCHANGED <<roi_file, roi, pipeVars>>
    /\ UNCHANGED final_print
    /\ UNCHANGED <<image, indices, fai_mask, tasks>>
    /\ UNCHANGED composites
    /\ UNCHANGED <<script, archive, err, idx, results, exported, obs, cloud, date_selected,
                   optical_mask, radar_mask, final_mask, source, vi, stat>>

\* ls.size().getInfo(), inside the loop's try
OptSize ==
    /\ script \in OpticalScripts
    /\ pc = "size"
    /\ \E resp \in Responses :
         /\ Anomaly(resp = "raise")
         /\ IF resp = "raise"
            THEN Observe({"fail"}) /\ NextJob
            ELSE IF IsEmpty(Cardinality(coll))
            THEN Observe({"empty"}) /\ NextJob
            ELSE /\ Observe(IF coll = {} THEN {"empty"} ELSE {})
                 /\ pc' = "cloud"
                 /\ UNCHANGED <<idx, jobVars>>
    /\ Did(<<"size">>)
    /\ UNCHANGED started
    /\ UNCHANGED <<roi_file, roi, pipeVars>>
    /\ UNCHANGED final_print
    /\ UNCHANGED <<image, indices, fai_mask, tasks>>
    /\ UNCHANGED composites
    /\ UNCHANGED <<script, archive, err, results, exported>>

\* cloud = ls.aggregate_mean(...).getInfo()
OptCloud ==
    /\ script \in OpticalScripts
    /\ pc = "cloud"
    /\ \E resp \in Responses :
         /\ Anomaly(resp = "raise")
         /\ IF resp = "raise"
            THEN Observe({"fail"}) /\ NextJob
            ELSE /\ cloud' = AggregateMean(coll)
                 /\ pc' = "reduce"
                 /\ UNCHANGED <<idx, obs, start_date, end_date, coll, date_selected,
                                optical_mask, radar_mask, final_mask, source, vi, stat>>
    /\ Did(<<"mean">>)
    /\ UNCHANGED started
    /\ UNCHANGED <<roi_file, roi, pipeVars>>
    /\ UNCHANGED final_print
    /\ UNCHANGED <<image, indices, fai_mask, tasks>>
    /\ UNCHANGED composites
    /\ UNCHANGED <<script, archive, err, results, exported>>

\* the answers of a reduceRegion request on the month's composite: a number
\* or null (<<>>); the composite of an empty collection has no bands
ReduceAnswers(c) ==
    IF c = {} THEN {None} ELSE {Some(v) : v \in ReduceValues} \cup {None}

\* how the answer of a reduction request is noted in obs
Answer(resp, o) ==
    IF resp = "raise" THEN "fail"
    ELSE IF IsNone(o) THEN "null"
    ELSE IF Val(o) = 0 THEN "zero" ELSE "value"

\* the reduceRegion request, the None check, the returned record and
\* the loop's  if result: results.append(result)
OptReduce ==
    /\ script \in OpticalScripts
    /\ pc = "reduce"
    /\ \E resp \in Responses, o \in ReduceAnswers(coll) :
       \E values \in ReduceReadings(script, o) :
         /\ Anomaly(resp = "raise" \/ o # Some(NominalArea))
         /\ Observe({Answer(resp, o)})
         /\ IF resp = "raise" \/ NoValue(script, values)
            THEN UNCHANGED results
            ELSE LET result == OpticalRecord(Year, Month, start_date, cloud,
                                             Val(values[1]))
                 IN  results' = IF Truthy(result) THEN Append(results, result)
                                ELSE results
    /\ NextJob
    /\ Did(<<"median", "mask", "reduce">>)
    /\ UNCHANGED started
    /\ UNCHANGED <<roi_file, roi, pipeVars>>
    /\ UNCHANGED final_print
    /\ UNCHANGED <<image, indices, fai_mask, tasks>>
    /\ Composite("median", coll, coll)
    /\ UNCHANGED <<script, archive, err, exported>>

(***************************************************************************)
(* Export                                                                  *)
(***************************************************************************)
\* the key df.sort_values(by='Date of Satellite Selected') compares
SortKey(r) == r.Date

RECURSIVE InsertSorted(_, _)
InsertSorted(r, s) ==
    IF s = <<>> THEN <<r>>
    ELSE IF StrLess(SortKey(r), SortKey(Head(s))) THEN <<r>> \o s
    ELSE <<Head(s)>> \o InsertSorted(r, Tail(s))

RECURSIVE SortValues(_)
\* df.sort_values(by=...): ascending by the key
SortValues(s) ==
    IF s = <<>> THEN <<>>
    ELSE InsertSorted(s[Len(s)], SortValues(SubSeq(s, 1, Len(s) - 1)))

\* df = pd.DataFrame(results); df = df[[...]]: selecting the named columns
\* of a frame built from an empty list raises KeyError
SelectColumnsFails(rows) == rows = <<>>

\* print(f"Final Excel file saved as: {excel_path}"): the file's path, and no
\* count of months
SavedMessage(rows) == [text |-> "saved", totals |-> <<>>]

\* pd.DataFrame(results), the column selection, sort_values, to_excel and the
\* closing print
OptExport ==
    /\ script \in OpticalScripts
    /\ pc = "export"
    /\ IF SelectColumnsFails(results)
       THEN /\ pc' = "aborted"
            /\ UNCHANGED final_print
            /\ err' = "KeyError"
            /\ UNCHANGED exported
       ELSE /\ exported' = Some(SortValues(results))
            /\ pc' = "done"
            /\ final_print' = SavedMessage(results)
            /\ UNCHANGED err
    /\ UNCHANGED <<started, steps>>
    /\ UNCHANGED <<roi_file, roi, pipeVars>>
    /\ UNCHANGED <<image, indices, fai_mask, tasks>>
    /\ UNCHANGED composites
    /\ UNCHANGED <<script, archive, idx, results, anomalies, obs, jobVars>>

(***************************************************************************)
(* The single-month raster export script                                   *)
(***************************************************************************)
\* for year in range(2019, 2020): for month in [11]; export_year, export_month
ExportYear == 2019
ExportMonth == 11

\* the descriptions of the two export tasks
MaskTask == "LakeTana_HyacinthMask"
IndicesTask == "LakeTana_NDVI_FAI"

\* get_ndvi_fai_monthly_s2: start_date, end_date and the lazily filtered
\* collection
ImgBeginJob ==
    /\ script = ExportImageScript
    /\ pc = "loop"
    /\ start_date' = OpticalStartDate(ExportYear, ExportMonth)
    /\ end_date' = OpticalEndDate(ExportYear, ExportMonth)
    /\ \E imgs \in ArchiveImages(ExportYear, ExportMonth) :
         coll' = FilterCollection(imgs, ExportYear, ExportMonth,
                                  OpticalStartDate(ExportYear, ExportMonth),
                                  OpticalEndDate(ExportYear, ExportMonth), CloudLimit)
    /\ pc' = "size"
    /\ started' = Append(started, <<ExportYear, ExportMonth>>)
    /\ UNCHANGED steps
    /\ UNCHANGED <<roi_file, roi, pipeVars>>
    /\ UNCHANGED final_print
    /\ UNCHANGED <<image, indices, fai_mask, tasks>>
    /\ UNCHANGED composites
    /\ UNCHANGED <<script, archive, err, idx, results, exported, anomalies, obs, cloud,
                   date_selected, optical_mask, radar_mask, final_mask, source, vi, stat>>

\* if s2.size().getInfo() == 0: return None; the loop has no try, and after
\* its only month the script goes on to the raster export
ImgSize ==
    /\ script = ExportImageScript
    /\ pc = "size"
    /\ \E resp \in Responses :
         IF resp = "raise"
         THEN /\ pc' = "aborted"
              /\ err' = "EEException"
              /\ UNCHANGED obs
         ELSE /\ pc' = IF IsEmpty(Cardinality(coll)) THEN "mask_task" ELSE "cloud"
              /\ Observe(IF coll = {} THEN {"empty"} ELSE {})
              /\ UNCHANGED err
    /\ UNCHANGED <<started, steps>>
    /\ UNCHANGED <<roi_file, roi, pipeVars>>
    /\ UNCHANGED final_print
    /\ UNCHANGED <<image, indices, fai_mask, tasks>>
    /\ UNCHANGED composites
    /\ UNCHANGED <<script, archive, idx, results, exported, anomalies, jobVars>>

\* cloud = s2.aggregate_mean('CLOUDY_PIXEL_PERCENTAGE').getInfo()
ImgCloud ==
    /\ script = ExportImageScript
    /\ pc = "cloud"
    /\ \E resp \in Responses :
         IF resp = "raise"
         THEN /\ pc' = "aborted"
              /\ err' = "EEException"
              /\ UNCHANGED cloud
         ELSE /\ cloud' = AggregateMean(coll)
              /\ pc' = "reduce"
              /\ UNCHANGED err
    /\ UNCHANGED <<started, steps>>
    /\ UNCHANGED <<roi_file, roi, pipeVars>>
    /\ UNCHANGED final_print
    /\ UNCHANGED <<image, indices, fai_mask, tasks>>
    /\ UNCHANGED composites
    /\ UNCHANGED <<script, archive, idx, results, exported, anomalies, obs, start_date,
                   end_date, coll, date_selected, optical_mask, radar_mask, final_mask,
                   source, vi, stat>>

\* area_sq_m = stats.get('NDVI').getInfo(); if area_sq_m is None: return None;
\* the returned record and the loop's  if result: results.append(result)
ImgReduce ==
    /\ script = ExportImageScript
    /\ pc = "reduce"
    /\ \E resp \in Responses, o \in ReduceAnswers(coll) :
         IF resp = "raise"
         THEN /\ pc' = "aborted"
              /\ err' = "EEException"
              /\ UNCHANGED <<results, obs>>
         ELSE /\ Observe({Answer(resp, o)})
              /\ IF IsNone(o)
                 THEN UNCHANGED results
                 ELSE LET result == OpticalRecord(ExportYear, ExportMonth, start_date,
                                                  cloud, Val(o))
                      IN  results' = IF Truthy(result) THEN Append(results, result)
                                     ELSE results
              /\ pc' = "mask_task"
              /\ UNCHANGED err
    /\ UNCHANGED <<started, steps>>
    /\ UNCHANGED <<roi_file, roi, pipeVars>>
    /\ UNCHANGED final_print
    /\ UNCHANGED <<image, indices, fai_mask, tasks>>
    /\ Composite("median", coll, coll)
    /\ UNCHANGED <<script, archive, idx, exported, anomalies, jobVars>>

\* section 9: s2_export is the month's filter evaluated again (lazily),
\* median_img its median, and  task_mask.start()  follows unconditionally
ImgStartMask ==
    /\ script = ExportImageScript
    /\ pc = "mask_task"
    /\ \E imgs \in ArchiveImages(ExportYear, ExportMonth), resp \in Responses :
         LET s2_export == FilterCollection(imgs, ExportYear, ExportMonth,
                                           OpticalStartDate(ExportYear, ExportMonth),
                                           OpticalEndDate(ExportYear, ExportMonth),
                                           CloudLimit)
         IN  /\ s2_export = coll
             /\ IF resp = "raise"
                THEN /\ pc' = "aborted"
                     /\ err' = "EEException"
                     /\ UNCHANGED <<tasks, composites>>
                ELSE /\ tasks' = tasks \cup {MaskTask}
                     /\ Composite("median", s2_export, s2_export)
                     /\ pc' = "indices_task"
                     /\ UNCHANGED err
    /\ UNCHANGED <<started, steps>>
    /\ UNCHANGED <<roi_file, roi, pipeVars>>
    /\ UNCHANGED final_print
    /\ UNCHANGED <<image, indices, fai_mask>>
    /\ UNCHANGED <<script, archive, idx, results, exported, anomalies, obs, jobVars>>

\* task_indices.start() and the closing print
ImgStartIndices ==
    /\ script = ExportImageScript
    /\ pc = "indices_task"
    /\ \E resp \in Responses :
         IF resp = "raise"
         THEN /\ pc' = "aborted"
              /\ err' = "EEException"
              /\ UNCHANGED <<tasks, final_print>>
         ELSE /\ tasks' = tasks \cup {IndicesTask}
              /\ pc' = "done"
              /\ final_print' = [text |-> "tasks started", totals |-> <<>>]
              /\ UNCHANGED err
    /\ UNCHANGED <<started, steps>>
    /\ UNCHANGED <<roi_file, roi, pipeVars>>
    /\ UNCHANGED <<image, indices, fai_mask>>
    /\ UNCHANGED composites
    /\ UNCHANGED <<script, archive, idx, results, exported, anomalies, obs, jobVars>>

(***************************************************************************)
(* Deferred values and get_value                                           *)
(***************************************************************************)
\* def get_value(val): val.getInfo() if hasattr(val, 'getInfo') else val,
\* None when getInfo raises.  Evaluating a number computed from a null
\* reduction raises on the server.
GetValue(cell, resp) ==
    IF cell.tag \in {"ee", "eenull"}
    THEN IF resp = "raise" \/ cell.tag = "eenull" THEN NoneCell
         ELSE NumCell(cell.num)
    ELSE cell

\* the rows with their deferred cell of column f evaluated, row i under resps[i]
ApplyGetValue(rows, f, resps) ==
    [i \in 1..Len(rows) |-> [rows[i] EXCEPT ![f] = GetValue(rows[i][f], resps[i])]]

\* the answers to the getInfo requests of the export's rows
RowResponses(rows) ==
    {f \in [1..Len(rows) -> Responses] :
        anomalies + Cardinality({i \in 1..Len(rows) : f[i] = "raise"}) <= MaxAnomalies}

(***************************************************************************)
(* The Sentinel-1 radar script                                             *)
(***************************************************************************)
\* the sets of acquisition days the radar archive may hold for a month
RadarImageSets(y, m) == IF archive = "void" THEN {{}} ELSE SUBSET ImageDays(y, m)
NominalRadarImages == IF archive = "void" THEN {} ELSE {NominalDay}

\* filtered = sentinel1.filterDate(first_day.isoformat(), last_day.isoformat())
RadarFilter(days, y, m, start, end) ==
    {d \in days : InWindow(<<y, m, d>>, start, end)}

\* filtered.first(): the earliest image of the collection
FirstDay(c) == CHOOSE d \in c : \A e \in c : d <= e

RadarRecord(y, m, day, o) ==
    [Year |-> y, Month |-> m, Date |-> IsoFormat(<<y, m, day>>),
     Cloud |-> 0, Area |-> LazyCell(o)]

RadarBeginJob ==
    /\ script = RadarScript
    /\ pc = "loop"
    /\ start_date' = CalendarStartDate(Year, Month)
    /\ end_date' = CalendarEndDate(Year, Month)
    /\ \E days \in RadarImageSets(Year, Month) :
         /\ Anomaly(days # NominalRadarImages)
         /\ coll' = RadarFilter(days, Year, Month, CalendarStartDate(Year, Month),
                                CalendarEndDate(Year, Month))
    /\ pc' = "size"
    /\ StartJob
    /\ UNCHANGED steps
    /\ UNCHANGED <<roi_file, roi, pipeVars>>
    /\ UNCHANGED final_print
    /\ UNCHANGED <<image, indices, fai_mask, tasks>>
    /\ UNCHANGED composites
    /\ UNCHANGED <<script, archive, err, idx, results, exported, obs, cloud, date_selected,
                   optical_mask, radar_mask, final_mask, source, vi, stat>>

\* if filtered.size().getInfo() == 0: ... continue      (no try around it)
RadarSize ==
    /\ script = RadarScript
    /\ pc = "size"
    /\ \E resp \in Responses :
         /\ Anomaly(resp = "raise")
         /\ IF resp = "raise"
            THEN Observe({"fail"}) /\ Abort("EEException")
            ELSE IF IsEmpty(Cardinality(coll))
            THEN Observe({"empty"}) /\ NextJob /\ UNCHANGED err
            ELSE /\ Observe(IF coll = {} THEN {"empty"} ELSE {})
                 /\ pc' = "date"
                 /\ UNCHANGED <<err, idx, jobVars>>
    /\ UNCHANGED <<started, steps>>
    /\ UNCHANGED <<roi_file, roi, pipeVars>>
    /\ UNCHANGED final_print
    /\ UNCHANGED <<image, indices, fai_mask, tasks>>
    /\ UNCHANGED composites
    /\ UNCHANGED <<script, archive, results, exported>>

\* date_selected = ee.Date(first_image.get(...)).format(...).getInfo(), then the
\* deferred area of the median composite and results.append({...})
RadarDate ==
    /\ script = RadarScript
    /\ pc = "date"
    /\ \E resp \in Responses, o \in ReduceAnswers(coll) :
         /\ Anomaly(resp = "raise" \/ o # Some(NominalArea))
         /\ IF resp = "raise" \/ coll = {}
            THEN /\ Observe({"fail"}) /\ Abort("EEException")
                 /\ UNCHANGED <<results, composites>>
            ELSE /\ date_selected' = Some(FirstDay(coll))
                 /\ results' = Append(results,
                                      RadarRecord(Year, Month, FirstDay(coll), o))
                 /\ Observe({Answer(resp, o)})
                 /\ Composite("median", coll, coll)
                 /\ pc' = "print"
                 /\ UNCHANGED <<err, idx, start_date, end_date, coll, cloud,
                                optical_mask, radar_mask, final_mask, source, vi, stat>>
    /\ UNCHANGED <<started, steps>>
    /\ UNCHANGED <<roi_file, roi, pipeVars>>
    /\ UNCHANGED final_print
    /\ UNCHANGED <<image, indices, fai_mask, tasks>>
    /\ UNCHANGED <<script, archive, exported>>

\* print(f"...{area_km2.getInfo() if area_km2 else 0:.2f} km2"): the request
\* raises, or a null area fails on the server or in the .2f format
RadarPrint ==
    /\ script = RadarScript
    /\ pc = "print"
    /\ LET area == results[Len(results)].Area IN
       \E resp \in Responses :
         /\ Anomaly(resp = "raise")
         /\ IF resp = "raise"
            THEN Observe({"fail"}) /\ Abort("EEException")
            ELSE IF area.tag = "eenull"
            THEN /\ \E e \in {"EEException", "TypeError"} : Abort(e)
                 /\ UNCHANGED obs
            ELSE NextJob /\ UNCHANGED <<err, obs>>
    /\ UNCHANGED <<started, steps>>
    /\ UNCHANGED <<roi_file, roi, pipeVars>>
    /\ UNCHANGED final_print
    /\ UNCHANGED <<image, indices, fai_mask, tasks>>
    /\ UNCHANGED composites
    /\ UNCHANGED <<script, archive, results, exported>>

\* pd.DataFrame(results), the get_value pass over the area column (indexing
\* the column of a frame built from an empty list raises KeyError), to_excel
RadarExport ==
    /\ script = RadarScript
    /\ pc = "export"
    /\ IF SelectColumnsFails(results)
       THEN /\ pc' = "aborted"
            /\ UNCHANGED final_print
            /\ err' = "KeyError"
            /\ UNCHANGED <<exported, anomalies>>
       ELSE \E resps \in RowResponses(results) :
            /\ exported' = Some(ApplyGetValue(results, "Area", resps))
            /\ anomalies' = anomalies
                            + Cardinality({i \in DOMAIN resps : resps[i] = "raise"})
            /\ pc' = "done"
            /\ final_print' = SavedMessage(results)
            /\ UNCHANGED err
    /\ UNCHANGED <<started, steps>>
    /\ UNCHANGED <<roi_file, roi, pipeVars>>
    /\ UNCHANGED <<image, indices, fai_mask, tasks>>
    /\ UNCHANGED composites
    /\ UNCHANGED <<script, archive, idx, results, obs, jobVars>>

(***************************************************************************)
(* The CHIRPS rainfall script                                              *)
(***************************************************************************)
RainRecord(y, m, o) == [Year |-> y, Month |-> m, Total |-> LazyCell(o)]

\* one iteration: no request is sent, the monthly sum and its reduction stay
\* deferred and the row is appended
RainJob ==
    /\ script = RainfallScript
    /\ pc = "loop"
    /\ \E days \in RadarImageSets(Year, Month) :
       LET filtered == RadarFilter(days, Year, Month, CalendarStartDate(Year, Month),
                                   CalendarEndDate(Year, Month))
       IN  \E o \in ReduceAnswers(filtered) :
             /\ Anomaly(days # NominalRadarImages \/ o # Some(NominalArea))
             /\ results' = Append(results, RainRecord(Year, Month, o))
             /\ Observe(IF filtered = {} THEN {"empty"}
                        ELSE IF IsNone(o) THEN {"null"} ELSE {"value"})
    /\ NextJob
    /\ StartJob
    /\ UNCHANGED steps
    /\ UNCHANGED <<roi_file, roi, pipeVars>>
    /\ UNCHANGED final_print
    /\ UNCHANGED <<image, indices, fai_mask, tasks>>
    /\ UNCHANGED composites
    /\ UNCHANGED <<script, archive, err, exported>>

\* df['Total mm per month'].apply(get_value) and to_excel
RainExport ==
    /\ script = RainfallScript
    /\ pc = "export"
    /\ IF SelectColumnsFails(results)
       THEN /\ pc' = "aborted"
            /\ err' = "KeyError"
            /\ UNCHANGED <<exported, anomalies>>
       ELSE \E resps \in RowResponses(results) :
            /\ exported' = Some(ApplyGetValue(results, "Total", resps))
            /\ anomalies' = anomalies
                            + Cardinality({i \in DOMAIN resps : resps[i] = "raise"})
            /\ pc' = "done"
            /\ UNCHANGED err
    /\ UNCHANGED <<started, steps>>
    /\ UNCHANGED <<roi_file, roi, pipeVars>>
    /\ UNCHANGED final_print
    /\ UNCHANGED <<image, indices, fai_mask, tasks>>
    /\ UNCHANGED composites
    /\ UNCHANGED <<script, archive, idx, results, obs, jobVars>>

(***************************************************************************)
(* The AgERA5 temperature / humidity script                                *)
(***************************************************************************)
\* variables = [(band, name, unit, convert_func), ...]: kelvin says the
\* conversion is  lambda x: x - 273.15  rather than  lambda x: x
Variables == <<
    [name |-> "Temperature Max", kelvin |-> TRUE],
    [name |-> "Temperature Min", kelvin |-> TRUE],
    [name |-> "Temperature Mean", kelvin |-> TRUE],
    [name |-> "Specific Humidity", kelvin |-> FALSE],
    [name |-> "Relative Humidity (06h)", kelvin |-> FALSE],
    [name |-> "Relative Humidity (15h)", kelvin |-> FALSE] >>

\* 273.15 in hundredths
KelvinOffset == 27315
\* the nominal statistic of a band, in hundredths of its unit
NominalStat(v) == IF v.kelvin THEN 29815 ELSE 6550

\* convert_func(x): subtracting from None raises TypeError
ConvertRaises(v, o) == v.kelvin /\ IsNone(o)
Convert(v, o) ==
    IF IsNone(o) THEN None
    ELSE IF v.kelvin THEN Some(Val(o) - KelvinOffset) ELSE o

\* a format that prints None without raising
FormatAccepts(s) == FALSE

\* f"{x:.2f}" raises TypeError on None
FormatRaises(s) == \E k \in 1..Len(s) : IsNone(s[k])

OptCell(o) == IF IsNone(o) THEN NoneCell ELSE NumCell(Val(o))

TempRow(y, m, v, s) ==
    [Year |-> y, Month |-> m, Variable |-> v.name,
     Min |-> OptCell(s[1]), Max |-> OptCell(s[2]), Mean |-> OptCell(s[3])]

\* the row of the except branch
TempNoneRow(y, m, v) == TempRow(y, m, v, <<None, None, None>>)

\* the inner loop moves to its next variable, or the outer loop to its next month
NextVariable ==
    IF vi < Len(Variables)
    THEN /\ vi' = vi + 1
         /\ stat' = <<>>
         /\ UNCHANGED <<pc, idx, start_date, end_date, coll, cloud, date_selected,
                        optical_mask, radar_mask, final_mask, source>>
    ELSE NextJob

\* first_day, last_day and the lazily filtered daily collection
TempBeginJob ==
    /\ script = TemperatureScript
    /\ pc = "loop"
    /\ start_date' = CalendarStartDate(Year, Month)
    /\ end_date' = CalendarEndDate(Year, Month)
    /\ \E days \in RadarImageSets(Year, Month) :
         /\ Anomaly(days # NominalRadarImages)
         /\ coll' = RadarFilter(days, Year, Month, CalendarStartDate(Year, Month),
                                CalendarEndDate(Year, Month))
    /\ pc' = "stat"
    /\ StartJob
    /\ UNCHANGED steps
    /\ UNCHANGED <<roi_file, roi, pipeVars>>
    /\ UNCHANGED final_print
    /\ UNCHANGED <<image, indices, fai_mask, tasks>>
    /\ UNCHANGED composites
    /\ UNCHANGED <<script, archive, err, idx, results, exported, obs, cloud, date_selected,
                   optical_mask, radar_mask, final_mask, source, vi, stat>>

\* the statistics of an empty collection are null
StatAnswers(c, v) == IF c = {} THEN {None} ELSE {Some(NominalStat(v)), None}

\* one of  min_val.getInfo(), max_val.getInfo(), mean_val.getInfo()  with its
\* conversion; after the third, the prints and results.append; any exception
\* goes to the except branch, which appends the row of None
TempGetInfo ==
    /\ script = TemperatureScript
    /\ pc = "stat"
    /\ LET v == Variables[vi] IN
       \E resp \in Responses, o \in StatAnswers(coll, v) :
         /\ Anomaly(resp = "raise" \/ (IsNone(o) /\ coll # {}))
         /\ IF resp = "raise" \/ ConvertRaises(v, o)
            THEN /\ results' = Append(results, TempNoneRow(Year, Month, v))
                 /\ Observe({"fail"})
                 /\ NextVariable
            ELSE LET s == Append(stat, Convert(v, o)) IN
                 IF Len(s) < 3
                 THEN /\ stat' = s
                      /\ UNCHANGED <<results, obs, pc, idx, start_date, end_date, coll,
                                     cloud, date_selected, optical_mask, radar_mask,
                                     final_mask, source, vi>>
                 ELSE /\ results' = Append(results,
                                           IF FormatRaises(s)
                                           THEN TempNoneRow(Year, Month, v)
                                           ELSE TempRow(Year, Month, v, s))
                      /\ Observe(IF FormatRaises(s) THEN {"null"} ELSE {"value"})
                      /\ NextVariable
    /\ UNCHANGED <<started, steps>>
    /\ UNCHANGED <<roi_file, roi, pipeVars>>
    /\ UNCHANGED final_print
    /\ UNCHANGED <<image, indices, fai_mask, tasks>>
    /\ UNCHANGED composites
    /\ UNCHANGED <<script, archive, err, exported>>

\* pd.DataFrame(results) and to_excel
TempExport ==
    /\ script = TemperatureScript
    /\ pc = "export"
    /\ exported' = Some(results)
    /\ pc' = "done"
    /\ UNCHANGED <<started, steps>>
    /\ UNCHANGED <<roi_file, roi, pipeVars>>
    /\ UNCHANGED final_print
    /\ UNCHANGED <<image, indices, fai_mask, tasks>>
    /\ UNCHANGED composites
    /\ UNCHANGED <<script, archive, err, idx, results, anomalies, obs, jobVars>>

(***************************************************************************)
(* The hybrid-fusion script                                                *)
(***************************************************************************)
\* the cells where each mask is 1
OpticalCells == {1}
RadarCells == {2, 3}

\* .filter(ee.Filter.lt('CLOUDY_PIXEL_PERCENTAGE', 70))
HybridCloudLimit == 70000
\* cloud_pct < 30
HybridAcceptance == 30000

\* s2.sort('CLOUDY_PIXEL_PERCENTAGE').first(): the images least cloudy
LeastCloudy(c) == {im \in c : \A other \in c : im[2] <= other[2]}

\* optical_mask.Or(radar_mask)
MaskOr(a, b) == a \cup b

\* sum of mask x pixelArea over the region, in square metres
MaskArea(mask) == Cardinality(mask) * CellArea

\* the fusion logic with the acceptance test written  cloud_pct <= 30
FusionAtMost(om, cp, rm) ==
    IF ~IsNone(om) /\ ~IsNone(cp) /\ Val(cp) <= HybridAcceptance
    THEN <<IF IsNone(rm) THEN Val(om) ELSE MaskOr(Val(om), Val(rm)),
           "Hybrid (Optical+Radar)">>
    ELSE IF ~IsNone(rm) THEN <<Val(rm), "Radar only">>
    ELSE IF ~IsNone(om) THEN <<Val(om), "Optical only">>
    ELSE <<>>

\* the fusion logic: <<final_mask, source>>, or <<>> when the month has no data
Fusion(om, cp, rm) ==
    IF ~IsNone(om) /\ ~IsNone(cp) /\ Val(cp) < HybridAcceptance
    THEN <<IF IsNone(rm) THEN Val(om) ELSE MaskOr(Val(om), Val(rm)),
           "Hybrid (Optical+Radar)">>
    ELSE IF ~IsNone(rm) THEN <<Val(rm), "Radar only">>
    ELSE IF ~IsNone(om) THEN <<Val(om), "Optical only">>
    ELSE <<>>

\* round(cloud_pct, 2) if cloud_pct else 'N/A'   (0 is false)
CloudCell(cp) ==
    IF IsNone(cp) \/ Val(cp) = 0 THEN StrCell(StrNA)
    ELSE NumCell(Round2(Val(cp), 10))

HybridRecord(y, m, date, cp, area, src) ==
    [Year |-> y, Month |-> m, Date |-> date, Cloud |-> CloudCell(cp),
     Area |-> Round2(area, 10000), Source |-> src]

HybBeginJob ==
    /\ script = HybridScript
    /\ pc = "loop"
    /\ start_date' = CalendarStartDate(Year, Month)
    /\ end_date' = CalendarEndDate(Year, Month)
    /\ pc' = "s2"
    /\ StartJob
    /\ UNCHANGED steps
    /\ UNCHANGED <<roi_file, roi, pipeVars>>
    /\ UNCHANGED final_print
    /\ UNCHANGED <<image, indices, fai_mask, tasks>>
    /\ UNCHANGED composites
    /\ UNCHANGED <<script, archive, err, idx, results, exported, anomalies, obs, coll, cloud,
                   date_selected, optical_mask, radar_mask, final_mask, source, vi, stat>>

\* get_sentinel2_mask: the least cloudy image of the window; None, None, None
\* when img.bandNames().size().getInfo() raises (no image, or a failed request)
HybGetS2 ==
    /\ script = HybridScript
    /\ pc = "s2"
    /\ \E imgs \in ArchiveImages(Year, Month), resp \in Responses :
       LET s2 == FilterCollection(imgs, Year, Month, start_date, end_date,
                                  HybridCloudLimit)
       IN  /\ Anomaly(resp = "raise" \/ imgs # ArchiveNominal)
           /\ IF resp = "raise" \/ s2 = {}
              THEN /\ optical_mask' = None
                   /\ coll' = {}
                   /\ date_selected' = None
                   /\ Observe({IF s2 = {} THEN "s2empty" ELSE "fail"})
                   /\ UNCHANGED composites
                   /\ pc' = "s1"
              ELSE \E img \in LeastCloudy(s2) :
                   /\ optical_mask' = Some(OpticalCells)
                   /\ coll' = {img}
                   /\ Composite("first", {img}, s2)
                   /\ date_selected' = Some(img[1])
                   /\ UNCHANGED obs
                   /\ pc' = "cloud"
    /\ UNCHANGED <<started, steps>>
    /\ UNCHANGED <<roi_file, roi, pipeVars>>
    /\ UNCHANGED final_print
    /\ UNCHANGED <<image, indices, fai_mask, tasks>>
    /\ UNCHANGED <<script, archive, err, idx, results, exported, start_date, end_date, cloud,
                   radar_mask, final_mask, source, vi, stat>>

\* cloud_pct = cloud_cover.getInfo() if cloud_cover else None   (no try around it)
HybCloud ==
    /\ script = HybridScript
    /\ pc = "cloud"
    /\ \E resp \in Responses, img \in coll :
         /\ Anomaly(resp = "raise")
         /\ IF resp = "raise"
            THEN Observe({"fail"}) /\ Abort("EEException")
            ELSE /\ cloud' = Some(img[2])
                 /\ pc' = "s1"
                 /\ UNCHANGED <<err, idx, obs, start_date, end_date, coll, date_selected,
                                optical_mask, radar_mask, final_mask, source, vi, stat>>
    /\ UNCHANGED <<started, steps>>
    /\ UNCHANGED <<roi_file, roi, pipeVars>>
    /\ UNCHANGED final_print
    /\ UNCHANGED <<image, indices, fai_mask, tasks>>
    /\ UNCHANGED composites
    /\ UNCHANGED <<script, archive, results, exported>>

\* get_sentinel1_mask (s1.size().getInfo() has no try around it), then the
\* fusion logic and the deferred area image
HybGetS1 ==
    /\ script = HybridScript
    /\ pc = "s1"
    /\ \E days \in RadarImageSets(Year, Month), resp \in Responses :
       LET s1 == RadarFilter(days, Year, Month, start_date, end_date)
           rm == IF IsEmpty(Cardinality(s1)) THEN None ELSE Some(RadarCells)
           fused == Fusion(optical_mask, cloud, rm)
           noted == IF s1 # {} THEN {}
                    ELSE IF "s2empty" \in obs[idx] THEN {"s1empty", "empty"}
                    ELSE {"s1empty"}
       IN  /\ Anomaly(resp = "raise" \/ days # NominalRadarImages)
           /\ IF resp = "raise" \/ IsEmpty(Cardinality(s1))
              THEN UNCHANGED composites
              ELSE Composite("mosaic", s1, s1)
           /\ IF resp = "raise"
              THEN Observe({"fail"}) /\ Abort("EEException")
              ELSE IF fused = <<>>
              THEN Observe(noted) /\ NextJob /\ UNCHANGED err
              ELSE /\ radar_mask' = rm
                   /\ final_mask' = Some(fused[1])
                   /\ source' = fused[2]
                   /\ Observe(noted)
                   /\ pc' = "area"
                   /\ UNCHANGED <<err, idx, start_date, end_date, coll, cloud,
                                  date_selected, optical_mask, vi, stat>>
    /\ UNCHANGED <<started, steps>>
    /\ UNCHANGED <<roi_file, roi, pipeVars>>
    /\ UNCHANGED final_print
    /\ UNCHANGED <<image, indices, fai_mask, tasks>>
    /\ UNCHANGED <<script, archive, results, exported>>

\* area_km2 = ee.Number(stats.get('area')).divide(1e6).getInfo() inside try:
\* a raised request or a null reduction skips the month; with no s2_date the
\* record is appended without a further request
HybArea ==
    /\ script = HybridScript
    /\ pc = "area"
    /\ \E resp \in Responses, o \in {Some(MaskArea(Val(final_mask))), None} :
         /\ Anomaly(resp = "raise" \/ IsNone(o))
         /\ IF resp = "raise" \/ IsNone(o)
            THEN /\ Observe({IF resp = "raise" THEN "fail" ELSE "null"})
                 /\ NextJob
                 /\ UNCHANGED results
            ELSE IF IsNone(date_selected)
            THEN /\ results' = Append(results,
                        HybridRecord(Year, Month, StrRadarOnly, cloud, Val(o), source))
                 /\ Observe({"value"})
                 /\ NextJob
            ELSE /\ stat' = <<o>>
                 /\ pc' = "date"
                 /\ Observe({"value"})
                 /\ UNCHANGED <<results, idx, start_date, end_date, coll, cloud,
                                date_selected, optical_mask, radar_mask, final_mask,
                                source, vi>>
    /\ UNCHANGED <<started, steps>>
    /\ UNCHANGED <<roi_file, roi, pipeVars>>
    /\ UNCHANGED final_print
    /\ UNCHANGED <<image, indices, fai_mask, tasks>>
    /\ UNCHANGED composites
    /\ UNCHANGED <<script, archive, err, exported>>

\* s2_date.getInfo() inside results.append({...})   (no try around it)
HybDate ==
    /\ script = HybridScript
    /\ pc = "date"
    /\ \E resp \in Responses :
         /\ Anomaly(resp = "raise")
         /\ IF resp = "raise"
            THEN Observe({"fail"}) /\ Abort("EEException") /\ UNCHANGED results
            ELSE /\ results' = Append(results,
                        HybridRecord(Year, Month,
                                     IsoFormat(<<Year, Month, Val(date_selected)>>),
                                     cloud, Val(stat[1]), source))
                 /\ UNCHANGED <<err, obs>>
                 /\ NextJob
    /\ UNCHANGED <<started, steps>>
    /\ UNCHANGED <<roi_file, roi, pipeVars>>
    /\ UNCHANGED final_print
    /\ UNCHANGED <<image, indices, fai_mask, tasks>>
    /\ UNCHANGED composites
    /\ UNCHANGED <<script, archive, exported>>

\* pd.DataFrame(results), the column selection and to_excel (no sort)
HybExport ==
    /\ script = HybridScript
    /\ pc = "export"
    /\ IF SelectColumnsFails(results)
       THEN /\ pc' = "aborted"
            /\ UNCHANGED final_print
            /\ err' = "KeyError"
            /\ UNCHANGED exported
       ELSE /\ exported' = Some(results)
            /\ pc' = "done"
            /\ final_print' = SavedMessage(results)
            /\ UNCHANGED err
    /\ UNCHANGED <<started, steps>>
    /\ UNCHANGED <<roi_file, roi, pipeVars>>
    /\ UNCHANGED <<image, indices, fai_mask, tasks>>
    /\ UNCHANGED composites
    /\ UNCHANGED <<script, archive, idx, results, anomalies, obs, jobVars>>

(***************************************************************************)
(* The evapotranspiration script                                           *)
(***************************************************************************)
\* number of (year, month) pairs of 2013-01, 2013-02, ... a series covers
NumSeriesMonths == 2

\* the k-th pair of  for year in years: for month in range(1, 13)
SeriesMonth(k) == <<2013 + ((k - 1) \div 12), ((k - 1) % 12) + 1>>

RECURSIVE Ascend(_)
\* the members of a set of numbers in ascending order
Ascend(S) ==
    IF S = {} THEN <<>>
    ELSE LET x == CHOOSE a \in S : \A b \in S : a <= b IN <<x>> \o Ascend(S \ {x})

RECURSIVE Concat(_)
\* pd.concat(frames, ignore_index=True)
Concat(frames) == IF frames = <<>> THEN <<>> ELSE Head(frames) \o Concat(Tail(frames))

EtSources == <<"MODIS", "ERA5-Land", "FLDAS">>

\* the regional mean a source holds for a month, in thousandths of mm/day
SourceMean(src) ==
    CASE src = "MODIS" -> 3200
      [] src = "ERA5-Land" -> 3650
      [] src = "FLDAS" -> 2900

EtRow(ym, mean, median, src) ==
    [year |-> ym[1], month |-> ym[2], mean_et |-> mean, median_et |-> median,
     source |-> src]

\* process_*_et: the features whose mean_et is not None, as a frame; S is the
\* set of months for which the source holds data
SourceFrame(src, S) ==
    LET ks == Ascend(S)
    IN  [i \in 1..Len(ks) |->
            EtRow(SeriesMonth(ks[i]), SourceMean(src), SourceMean(src), src)]

\* the base value of the generated series, in thousandths of mm/day
BaseEt(month) ==
    IF month \in {12, 1, 2} THEN 4500
    ELSE IF month \in {6, 7, 8, 9} THEN 2800
    ELSE 3500

\* draws of np.random.normal(0, 0.3) and np.random.normal(0, 0.2)
NoiseDraws == {-5000, 0, 300}

\* max(0, x)
Max0(x) == IF x < 0 THEN 0 ELSE x

\* the rows of the else branch of STEP 7; noise[k] is the pair of draws of month k
SyntheticEt(noise) ==
    [k \in 1..NumSeriesMonths |->
        EtRow(SeriesMonth(k),
              Max0(BaseEt(SeriesMonth(k)[2]) + noise[k][1]),
              Max0(BaseEt(SeriesMonth(k)[2]) + noise[k][2]),
              "Synthetic")]

\* the rows of a frame of the month ym
OfMonth(rows, ym) == {k \in 1..Len(rows) : <<rows[k].year, rows[k].month>> = ym}

RECURSIVE SumField(_, _, _)
SumField(rows, ks, f) ==
    IF ks = {} THEN 0
    ELSE LET k == CHOOSE x \in ks : TRUE IN rows[k][f] + SumField(rows, ks \ {k}, f)

\* .groupby(['year', 'month']).agg(... 'mean' ...).round(3).reset_index() and
\* final_et_output sorted by ['Year', 'Month']
MonthlyEt(rows) ==
    LET present == {k \in 1..NumSeriesMonths : OfMonth(rows, SeriesMonth(k)) # {}}
        ks == Ascend(present)
    IN  [i \in 1..Len(ks) |->
            LET g == OfMonth(rows, SeriesMonth(ks[i]))
            IN  [Year |-> SeriesMonth(ks[i])[1], Month |-> SeriesMonth(ks[i])[2],
                 Average |-> Round2(SumField(rows, g, "mean_et"), Cardinality(g)),
                 Median |-> Round2(SumField(rows, g, "median_et"), Cardinality(g))]]

\* STEP 3: read the shapefile; on any exception the rectangle 36.8, 11.5, 37.8,
\* 12.5 is used instead
EtLoadROI ==
    /\ script = EvapScript
    /\ pc = "start"
    /\ roi' = IF ReadFileRaises(roi_file) THEN "rectangle" ELSE "shapefile"
    /\ pc' = "area"
    /\ UNCHANGED final_print
    /\ UNCHANGED <<image, indices, fai_mask, tasks>>
    /\ UNCHANGED composites
    /\ UNCHANGED <<script, archive, err, idx, results, exported, anomalies, obs, jobVars,
                   started, steps, roi_file, pipeVars>>

\* area_km2 = study_area.area().divide(1e6).getInfo()     (no try around it)
EtArea ==
    /\ script = EvapScript
    /\ pc = "area"
    /\ \E resp \in Responses :
         IF resp = "raise"
         THEN Abort("EEException")
         ELSE /\ pc' = "source"
              /\ UNCHANGED <<err, idx, jobVars>>
    /\ UNCHANGED final_print
    /\ UNCHANGED <<image, indices, fai_mask, tasks>>
    /\ UNCHANGED composites
    /\ UNCHANGED <<script, archive, results, exported, anomalies, obs,
                   started, steps, roi_file, roi, pipeVars>>

\* STEP 6, one source: process_*_et inside try; the frame is appended to
\* all_et_data unless it is empty; attempt is the index of the source
EtFetch ==
    /\ script = EvapScript
    /\ pc = "source"
    /\ \E resp \in Responses, S \in SUBSET (1..NumSeriesMonths) :
       LET data == SourceFrame(EtSources[attempt], S)
       IN  fetched' = IF resp = "raise" \/ data = <<>> THEN fetched
                      ELSE Append(fetched, data)
    /\ IF attempt < Len(EtSources)
       THEN attempt' = attempt + 1 /\ pc' = "source"
       ELSE attempt' = attempt /\ pc' = "combine"
    /\ UNCHANGED final_print
    /\ UNCHANGED <<image, indices, fai_mask, tasks>>
    /\ UNCHANGED composites
    /\ UNCHANGED <<script, archive, err, idx, results, exported, anomalies, obs, jobVars,
                   started, steps, roi_file, roi, frame, station, provenance>>

\* STEP 7: if all_et_data: combined_et = pd.concat(...) else: the generated series
EtCombine ==
    /\ script = EvapScript
    /\ pc = "combine"
    /\ IF fetched # <<>>
       THEN /\ frame' = Concat(fetched)
            /\ provenance' = "remote"
       ELSE \E noise \in [1..NumSeriesMonths -> NoiseDraws \X NoiseDraws] :
            /\ frame' = SyntheticEt(noise)
            /\ provenance' = "synthetic"
    /\ pc' = "export"
    /\ UNCHANGED final_print
    /\ UNCHANGED <<image, indices, fai_mask, tasks>>
    /\ UNCHANGED composites
    /\ UNCHANGED <<script, archive, err, idx, results, exported, anomalies, obs, jobVars,
                   started, steps, roi_file, roi, fetched, station, attempt>>

\* STEP 8 and STEP 10: the monthly table, and the workbook written inside try
\* (sheet Monthly_ET, and sheet Raw_ET_Data holding combined_et)
EtExport ==
    /\ script = EvapScript
    /\ pc = "export"
    /\ \E resp \in Responses :
         exported' = IF resp = "raise" THEN exported ELSE Some(MonthlyEt(frame))
    /\ pc' = "done"
    /\ UNCHANGED final_print
    /\ UNCHANGED <<image, indices, fai_mask, tasks>>
    /\ UNCHANGED composites
    /\ UNCHANGED <<script, archive, err, idx, results, anomalies, obs, jobVars,
                   started, steps, roi_file, roi, pipeVars>>

(***************************************************************************)
(* The water-level script                                                  *)
(***************************************************************************)
\* known_ids
KnownIds == <<"1270", "L_Tana", "Lake_Tana", "ETH_001", "Tana_Lake">>

\* a candidate of the searches, by what .get('id', .get('station_id')) gives:
\* <<id>>, or <<>> when it has neither key
Candidates == {<<"1270">>, <<"T_77">>, <<>>}

\* the lists unique_candidates may be: none, or one or two distinct candidates
CandidateLists ==
    {<<>>} \cup {<<c>> : c \in Candidates}
    \cup {l \in {<<c, d>> : c \in Candidates, d \in Candidates} : l[1] # l[2]}

\* the first known id whose probe answers 200, else known_ids[0]
ProbeKnownIds(probe) ==
    IF \E k \in 1..Len(KnownIds) : probe[k] = "200"
    THEN KnownIds[CHOOSE k \in 1..Len(KnownIds) :
                      probe[k] = "200" /\ \A j \in 1..(k - 1) : probe[j] # "200"]
    ELSE KnownIds[1]

\* a record of a downloaded time series
RawRecord(kind, ym, level) == [kind |-> kind, ym |-> ym, level |-> level]

\* the records a series may hold: well formed, with a date that does not
\* parse, with no date field, with a level that is not a number, with no level
RawRecords ==
    {RawRecord("valid", SeriesMonth(k), l) :
        k \in 1..NumSeriesMonths, l \in {1786500, 1787100}}
    \cup {RawRecord(kind, SeriesMonth(1), 0) :
            kind \in {"baddate", "nodate", "badlevel", "nolevel"}}

\* number of records of a downloaded series
MaxSeriesLen == 2

RawSeries ==
    UNION {[1..n -> RawRecords] : n \in 1..MaxSeriesLen}

\* the body of the loop of process_hydroweb_data: the record parses
Parses(r) == r.kind = "valid"

WlRow(ym, level) == [year |-> ym[1], month |-> ym[2], water_level |-> level]

RECURSIVE ProcessedRecords(_)
\* processed_records of process_hydroweb_data
ProcessedRecords(raw) ==
    IF raw = <<>> THEN <<>>
    ELSE (IF Parses(Head(raw)) THEN <<WlRow(Head(raw).ym, Head(raw).level)>> ELSE <<>>)
         \o ProcessedRecords(Tail(raw))

\* base_level = 1786.8, in millimetres
BaseLevel == 1786800

\* base_level + seasonal + year_factor + noise, for draws of the noise
SyntheticLevels == {BaseLevel - 1200, BaseLevel, BaseLevel + 1200}

SyntheticWl(levels) ==
    [k \in 1..NumSeriesMonths |-> WlRow(SeriesMonth(k), levels[k])]

\* STEP 8 and 9: the monthly means, sorted by ['Year', 'Month']
MonthlyWl(rows) ==
    LET present == {k \in 1..NumSeriesMonths : OfMonth(rows, SeriesMonth(k)) # {}}
        ks == Ascend(present)
    IN  [i \in 1..Len(ks) |->
            LET g == OfMonth(rows, SeriesMonth(ks[i]))
            IN  [Year |-> SeriesMonth(ks[i])[1], Month |-> SeriesMonth(ks[i])[2],
                 Level |-> Round2(SumField(rows, g, "water_level"), Cardinality(g)),
                 Count |-> Cardinality(g)]]

\* STEP 4: the three searches (every request inside try) and the removal of
\* duplicates leave unique_candidates
WlSearch ==
    /\ script = WaterLevelScript
    /\ pc = "start"
    /\ station' \in CandidateLists
    /\ pc' = "station"
    /\ UNCHANGED final_print
    /\ UNCHANGED <<image, indices, fai_mask, tasks>>
    /\ UNCHANGED composites
    /\ UNCHANGED <<script, archive, err, idx, results, exported, anomalies, obs, jobVars,
                   started, steps, roi_file, roi, fetched, frame, attempt, provenance>>

\* get_lake_tana_station: the id of the first candidate, or a probe of known_ids
WlStation ==
    /\ script = WaterLevelScript
    /\ pc = "station"
    /\ IF station # <<>>
       THEN station' = Head(station)
       ELSE \E probe \in [1..Len(KnownIds) -> {"200", "404", "raise"}] :
               station' = <<ProbeKnownIds(probe)>>
    /\ pc' = "download"
    /\ UNCHANGED final_print
    /\ UNCHANGED <<image, indices, fai_mask, tasks>>
    /\ UNCHANGED composites
    /\ UNCHANGED <<script, archive, err, idx, results, exported, anomalies, obs, jobVars,
                   started, steps, roi_file, roi, fetched, frame, attempt, provenance>>

\* download_water_level_data, one endpoint: the first series that is not
\* empty is returned; None after the fourth endpoint
WlDownload ==
    /\ script = WaterLevelScript
    /\ pc = "download"
    /\ \E answer \in {"raise", "status", "empty", "scalar", "series"} :
         IF answer = "series"
         THEN /\ fetched' \in RawSeries
              /\ pc' = "process"
              /\ UNCHANGED attempt
         ELSE /\ UNCHANGED fetched
              /\ IF attempt < 4
                 THEN attempt' = attempt + 1 /\ pc' = "download"
                 ELSE attempt' = attempt /\ pc' = "process"
    /\ UNCHANGED final_print
    /\ UNCHANGED <<image, indices, fai_mask, tasks>>
    /\ UNCHANGED composites
    /\ UNCHANGED <<script, archive, err, idx, results, exported, anomalies, obs, jobVars,
                   started, steps, roi_file, roi, frame, station, provenance>>

\* STEP 7: process_hydroweb_data, and the generated series when it yields no
\* record
WlProcess ==
    /\ script = WaterLevelScript
    /\ pc = "process"
    /\ LET processed == IF fetched # <<>> THEN ProcessedRecords(fetched) ELSE <<>>
       IN  IF processed = <<>>
           THEN \E levels \in [1..NumSeriesMonths -> SyntheticLevels] :
                /\ frame' = SyntheticWl(levels)
                /\ provenance' = "synthetic"
           ELSE /\ frame' = processed
                /\ provenance' = "remote"
    /\ pc' = "export"
    /\ UNCHANGED final_print
    /\ UNCHANGED <<image, indices, fai_mask, tasks>>
    /\ UNCHANGED composites
    /\ UNCHANGED <<script, archive, err, idx, results, exported, anomalies, obs, jobVars,
                   started, steps, roi_file, roi, fetched, station, attempt>>

\* STEP 8 to 11: the monthly table and final_output.to_csv (no try around it)
WlExport ==
    /\ script = WaterLevelScript
    /\ pc = "export"
    /\ \E resp \in Responses :
         IF resp = "raise"
         THEN /\ pc' = "aborted"
              /\ err' = "OSError"
              /\ UNCHANGED exported
         ELSE /\ exported' = Some(MonthlyWl(frame))
              /\ pc' = "done"
              /\ UNCHANGED err
    /\ UNCHANGED final_print
    /\ UNCHANGED <<image, indices, fai_mask, tasks>>
    /\ UNCHANGED composites
    /\ UNCHANGED <<script, archive, idx, results, anomalies, obs, jobVars,
                   started, steps, roi_file, roi, pipeVars>>

Next ==
    \/ LoadROI
    \/ OptBeginJob
    \/ OptSize
    \/ OptCloud
    \/ OptReduce
    \/ OptExport
    \/ ImgBeginJob
    \/ ImgSize
    \/ ImgCloud
    \/ ImgReduce
    \/ ImgStartMask
    \/ ImgStartIndices
    \/ RadarBeginJob
    \/ RadarSize
    \/ RadarDate
    \/ RadarPrint
    \/ RadarExport
    \/ RainJob
    \/ RainExport
    \/ TempBeginJob
    \/ TempGetInfo
    \/ TempExport
    \/ HybBeginJob
    \/ HybGetS2
    \/ HybCloud
    \/ HybGetS1
    \/ HybArea
    \/ HybDate
    \/ HybExport
    \/ EtLoadROI
    \/ EtArea
    \/ EtFetch
    \/ EtCombine
    \/ EtExport
    \/ WlSearch
    \/ WlStation
    \/ WlDownload
    \/ WlProcess
    \/ WlExport

Spec == Init /\ [][Next]_vars

(***************************************************************************)
(* A run of an optical script, every statement of which is executed and     *)
(* every remote request of which returns                                   *)
(***************************************************************************)
OpticalInit == Init /\ script \in OpticalScripts

OpticalNext ==
    \/ LoadROI
    \/ OptBeginJob
    \/ OptSize
    \/ OptCloud
    \/ OptReduce
    \/ OptExport

\* the statements an optical run can be at, and those it ends at
OpticalStatements == {"start", "loop", "size", "cloud", "reduce", "export"}
Ended == {"done", "aborted"}

\* the statement the run is at is executed: the interpreter runs the statements
\* one after the other, and a remote request returns or raises
Executes ==
    /\ pc \in OpticalStatements
    /\ pc' \in (OpticalStatements \cup Ended) \ {pc}

OpticalRunSpec == OpticalInit /\ [][OpticalNext]_vars /\ WF_pc(Executes)

(***************************************************************************)
(* Export of an arbitrarily ordered result list                            *)
(***************************************************************************)
\* the record the optical script s appends for its i-th (year, month)
RecordOfJob(s, i) ==
    OpticalRecord(JobYear(s, i), JobMonth(i),
                  OpticalStartDate(JobYear(s, i), JobMonth(i)),
                  Some(NominalCloud), NominalArea)

\* the result lists of at most MaxSortLen records of distinct months, in any order
SortInputs(s) ==
    UNION {
        {[k \in 1..n |-> RecordOfJob(s, f[k])] :
            f \in {g \in [1..n -> 1..NumJobs] :
                      \A a, b \in 1..n : a # b => g[a] # g[b]}} :
        n \in 0..MaxSortLen}

\* the iterations of script s whose record is in rows
RecordedJobs(s, rows) ==
    {i \in 1..NumJobs : \E k \in 1..Len(rows) : rows[k] = RecordOfJob(s, i)}

\* the composite behind the record of the i-th (year, month)
MedianOfMonth(s, i) ==
    LET ls == FilterCollection(NominalImages, JobYear(s, i), JobMonth(i),
                               OpticalStartDate(JobYear(s, i), JobMonth(i)),
                               OpticalEndDate(JobYear(s, i), JobMonth(i)), CloudLimit)
    IN  [method |-> "median", images |-> ls, of |-> ls]

SortInit ==
    /\ script \in OpticalScripts
    /\ archive = "covered"
    /\ pc = "export"
    /\ err = ""
    /\ idx = NumJobs + 1
    /\ results \in SortInputs(script)
    /\ exported = None
    /\ anomalies = 0
    /\ obs = [i \in 1..NumJobs |-> {}]
    /\ start_date = <<>>
    /\ end_date = <<>>
    /\ coll = {}
    /\ cloud = None
    /\ date_selected = None
    /\ optical_mask = None
    /\ radar_mask = None
    /\ final_mask = None
    /\ source = ""
    /\ vi = 1
    /\ stat = <<>>
    /\ started = [i \in 1..NumJobs |-> <<JobYear(script, i), JobMonth(i)>>]
    /\ steps = [i \in 1..NumJobs |->
                  IF \E k \in 1..Len(results) : results[k] = RecordOfJob(script, i)
                  THEN <<"filter", "size", "mean", "median", "mask", "reduce">>
                  ELSE <<"filter", "size">>]
    /\ roi_file = "ok"
    /\ roi = "shapefile"
    /\ fetched = <<>>
    /\ frame = <<>>
    /\ station = <<>>
    /\ attempt = 1
    /\ provenance = ""
    /\ final_print = [text |-> "", totals |-> <<>>]
    /\ image = [green |-> 0, red |-> 0, nir |-> 0, swir |-> 0]
    /\ indices = <<>>
    /\ composites = {MedianOfMonth(script, i) : i \in RecordedJobs(script, results)}
    /\ fai_mask = <<>>
    /\ tasks = {}

SortNext == OptExport

SortSpec == SortInit /\ [][SortNext]_vars

(***************************************************************************)
(* Band algebra: the per-image index functions                             *)
(***************************************************************************)
\* the scripts whose per-image function computes spectral indices
IndexScripts == OpticalScripts \cup {HybridScript}

\* the scripts whose function computes NDVI
NdviScripts ==
    {"NDVI_FAI_Landsat", "NDVI_FAI_Sentinel", "FAI_NDVI_SWIR_Sentinel", HybridScript}

\* digital numbers of a Landsat Collection 2 surface-reflectance band (uint16,
\* 1..65455) and of a Sentinel-2 band (uint16)
LandsatDNs == {1, 5455, 7273, 7274, 10909, 43636, 65455}
SentinelDNs == {0, 1, 500, 700, 1000, 1300, 3000, 10000, 65535}
DNs(s) == IF s \in LandsatScripts THEN LandsatDNs ELSE SentinelDNs

\* image.select(band).multiply(0.0000275).add(-0.2), in units of 1/400000
\* (0.0000275 = 11/400000, 0.2 = 80000/400000); the Sentinel-2 functions use
\* the band as it is
Rescale(s, dn) == IF s \in LandsatScripts THEN 11 * dn - 80000 ELSE dn

\* a quotient is kept exact, as <<numerator, denominator>>
\* nir.add(red) over nir.subtract(red): the quotient upside down
NdviInverted(nir, red) == <<nir + red, nir - red>>

\* nir.subtract(red).divide(nir.add(red));  image.normalizedDifference(['B8', 'B4'])
Ndvi(nir, red) == <<nir - red, nir + red>>

\* red_wl, nir_wl, swir_wl = 655, 865, 1609 (Landsat functions), 665, 842, 1610
\* (Sentinel-2 functions), and the constants 0.665, 0.865, 1.61 written in the
\* expression of the hybrid script's add_indices, in nanometres
Wavelengths(s) ==
    IF s \in LandsatScripts THEN <<655, 865, 1609>>
    ELSE IF s \in SentinelScripts THEN <<665, 842, 1610>>
    ELSE <<665, 865, 1610>>

\* the baseline taken through the SWIR band alone: nir - (red + (swir - red))
FaiNoSlope(red, nir, swir, wl) == <<(nir - swir) * (wl[3] - wl[1]), wl[3] - wl[1]>>

\* slope = (swir - red) * (nir_wl - red_wl) / (swir_wl - red_wl);
\* baseline = red + slope;  fai = nir - baseline
Fai(red, nir, swir, wl) ==
    <<(nir - red) * (wl[3] - wl[1]) - (swir - red) * (wl[2] - wl[1]), wl[3] - wl[1]>>

\* the script whose function computes NDWI, and the digital numbers of the
\* green band, which only that function reads
NdwiScript == "NDWI_FAI_Landsat"
GreenDNs(s) == IF s = NdwiScript THEN LandsatDNs ELSE {0}

\* green.subtract(swir1).divide(green.add(swir1))
Ndwi(green, swir1) == <<green - swir1, green + swir1>>

\* the scripts whose mask reads a SWIR band
SwirScripts == {"FAI_NDVI_SWIR_Sentinel", HybridScript}

\* swir.rename('SWIR1') (the band as it is);
\* image.select('B11').divide(10000).rename('SWIR') in the hybrid script
Swir1(s, swir) == IF s = HybridScript THEN <<swir, 10000>> ELSE <<swir, 1>>

\* the bands the per-image function of script s adds to a pixel
Indices(s, px) ==
    LET red == Rescale(s, px.red)
        nir == Rescale(s, px.nir)
        swir == Rescale(s, px.swir)
    IN  [ndvi |-> IF s \in NdviScripts THEN Ndvi(nir, red) ELSE <<0, 1>>,
         fai |-> Fai(red, nir, swir, Wavelengths(s)),
         ndwi |-> IF s = NdwiScript THEN Ndwi(Rescale(s, px.green), swir) ELSE <<0, 1>>,
         swir |-> IF s \in SwirScripts THEN Swir1(s, swir) ELSE <<0, 1>>]

\* .map(compute_...) applied to one pixel
ComputeIndices ==
    /\ script \in IndexScripts
    /\ indices = <<>>
    /\ indices' = <<Indices(script, image)>>
    /\ UNCHANGED <<script, archive, pc, err, idx, results, exported, anomalies, obs,
                   jobVars, started, steps, roi_file, roi, pipeVars, final_print, image,
                   composites, fai_mask, tasks>>

\* the comparison written gte: a value equal to the threshold passes
GtOrEqual(q, a, b) ==
    IF q[2] > 0 THEN q[1] > (a * q[2] - 1) \div b
    ELSE IF q[2] < 0 THEN -q[1] > (a * (-q[2]) - 1) \div b
    ELSE FALSE

\* band.gt(a / b) on the quotient q: 0 where the divisor of q is 0 (the
\* quotient has no value there)
Gt(q, a, b) ==
    IF q[2] > 0 THEN q[1] > (a * q[2]) \div b
    ELSE IF q[2] < 0 THEN -q[1] > (a * (-q[2])) \div b
    ELSE FALSE

\* band.lt(a / b)
Lt(q, a, b) == Gt(<<-q[1], q[2]>>, -a, b)

\* the threshold predicates of script s on the bands c of the composite, with
\* the thresholds in the unit of the bands (Landsat bands: 1/400000)
Thresholds(s, c) ==
    CASE s = "FAI_Landsat" -> Gt(c.fai, 2000, 1)
      [] s = "NDVI_FAI_Landsat" -> Gt(c.ndvi, 3, 10) /\ Gt(c.fai, 800, 1)
      [] s = "NDWI_FAI_Landsat" -> Gt(c.fai, 800, 1) /\ Lt(c.ndwi, 0, 1)
      [] s = "NDVI_FAI_Sentinel" -> Gt(c.ndvi, 3, 10) /\ Gt(c.fai, 2, 1000)
      [] s = "FAI_NDVI_SWIR_Sentinel" ->
            Gt(c.fai, 2, 1000) /\ Gt(c.ndvi, 3, 10) /\ Lt(c.swir, 8, 100)
      [] OTHER -> Gt(c.ndvi, 3, 10) /\ Gt(c.fai, 1, 100) /\ Lt(c.swir, 1, 10)

\* mask = fai.gt(..).And(ndvi.gt(..)) ...: 1 where every predicate holds
Mask(s, c) == IF Thresholds(s, c) THEN 1 ELSE 0

\* the mask of the composite at the pixel (the composite of one image is the
\* image)
ApplyMask ==
    /\ script \in IndexScripts
    /\ indices # <<>>
    /\ fai_mask = <<>>
    /\ fai_mask' = <<Mask(script, indices[1])>>
    /\ UNCHANGED <<script, archive, pc, err, idx, results, exported, anomalies, obs,
                   jobVars, started, steps, roi_file, roi, pipeVars, final_print, image,
                   indices, composites, tasks>>

IndexInit ==
    /\ script \in IndexScripts
    /\ image \in [green : GreenDNs(script), red : DNs(script), nir : DNs(script),
                  swir : DNs(script)]
    /\ indices = <<>>
    /\ composites = {}
    /\ fai_mask = <<>>
    /\ tasks = {}
    /\ archive = "covered"
    /\ pc = "start"
    /\ err = ""
    /\ idx = 1
    /\ results = <<>>
    /\ exported = None
    /\ anomalies = 0
    /\ obs = [i \in 1..NumJobs |-> {}]
    /\ start_date = <<>>
    /\ end_date = <<>>
    /\ coll = {}
    /\ cloud = None
    /\ date_selected = None
    /\ optical_mask = None
    /\ radar_mask = None
    /\ final_mask = None
    /\ source = ""
    /\ vi = 1
    /\ stat = <<>>
    /\ started = <<>>
    /\ steps = [i \in 1..NumJobs |-> <<>>]
    /\ roi_file = "ok"
    /\ roi = ""
    /\ fetched = <<>>
    /\ frame = <<>>
    /\ station = <<>>
    /\ attempt = 1
    /\ provenance = ""
    /\ final_print = [text |-> "", totals |-> <<>>]

IndexNext ==
    \/ ComputeIndices
    \/ ApplyMask

IndexSpec == IndexInit /\ [][IndexNext]_vars

(***************************************************************************)
(* Vocabulary of the properties                                            *)
(***************************************************************************)
\* the exported table, empty while nothing is exported
Rows == IF IsNone(exported) THEN <<>> ELSE Val(exported)

\* rows holds a record of the i-th (year, month)
HasRecord(rows, i) ==
    \E k \in 1..Len(rows) :
        rows[k].Year = JobYear(script, i) /\ rows[k].Month = JobMonth(i)

\* the run was ended by an uncaught exception while it processed month i
AbortedIn(i) == pc = "aborted" /\ idx = i

\* the first day of the month after (y, m)
NextMonthFirst(y, m) == IF m = 12 THEN <<y + 1, 1, 1>> ELSE <<y, m + 1, 1>>

YearMonthLess(a, b) ==
    a.Year < b.Year \/ (a.Year = b.Year /\ a.Month < b.Month)

Ascending(rows) ==
    \A i, j \in 1..Len(rows) : i < j => YearMonthLess(rows[i], rows[j])

\* no row is followed by a row of an earlier (Year, Month)
NonDescending(rows) ==
    \A i, j \in 1..Len(rows) : i < j => ~YearMonthLess(rows[j], rows[i])

OnePerMonth(rows) ==
    \A i, j \in 1..Len(rows) :
        (rows[i].Year = rows[j].Year /\ rows[i].Month = rows[j].Month) => i = j

IsPrefix(a, b) == Len(a) <= Len(b) /\ a = SubSeq(b, 1, Len(a))

\* the number of records rows holds of the i-th (year, month)
RecordCount(rows, i) ==
    Cardinality({k \in 1..Len(rows) :
        rows[k].Year = JobYear(script, i) /\ rows[k].Month = JobMonth(i)})

\* the order of the steps of a monthly optical job
StepOrder == <<"filter", "size", "mean", "median", "mask", "reduce">>

\* the outcomes the i-th job has reached
SkippedEmpty(i) ==
    "empty" \in obs[i] /\ RecordCount(results, i) = 0 /\ steps[i] = <<"filter", "size">>
SkippedFailed(i) ==
    obs[i] \cap {"fail", "null"} # {} /\ RecordCount(results, i) = 0
Recorded(i) == RecordCount(results, i) = 1
Outcomes(i) ==
    (IF SkippedEmpty(i) THEN {"empty"} ELSE {})
    \cup (IF SkippedFailed(i) THEN {"failed"} ELSE {})
    \cup (IF Recorded(i) THEN {"record"} ELSE {})

\* the (year, month) pairs a run of script s is asked for
Requested(s) ==
    (FirstYear(s)..(FirstYear(s) + NumYears - 1)) \X {10, 11, 12}

PairLess(a, b) == a[1] < b[1] \/ (a[1] = b[1] /\ a[2] < b[2])

\* the i-th job has ended: with a record, or skipped
Terminal(i) ==
    /\ i < idx
    /\ RecordCount(results, i) = 1 \/ obs[i] \cap {"empty", "fail", "null"} # {}

\* jobs are started in ascending order, each at most once, one after the other
StartedInOrder ==
    /\ \A a, b \in 1..Len(started) : a < b => PairLess(started[a], started[b])
    /\ \A k \in 1..Len(started) : started[k] \in Requested(script)
    /\ \A k \in 1..Len(started) : k < Len(started) => Terminal(k)

\* no remote source gave a record: all_et_data is empty / no downloaded
\* record parses
NoRemoteData ==
    IF script = EvapScript THEN fetched = <<>> ELSE ProcessedRecords(fetched) = <<>>

\* the i-th job ended with one row in the table / ended with none
Succeeded(i) == i < idx /\ RecordCount(Rows, i) = 1
Skipped(i) == i < idx /\ RecordCount(Rows, i) = 0

\* every requested month is exactly one of succeeded and skipped, and the
\* counts add up
Accounted ==
    /\ \A i \in 1..NumJobs : Succeeded(i) \/ Skipped(i)
    /\ Len(Rows) + Cardinality({i \in 1..NumJobs : Skipped(i)}) = NumJobs

\* a quotient <<n, d>> with d # 0 lies in [-1, 1]
InUnitInterval(q) ==
    IF q[2] > 0 THEN -q[2] <= q[1] /\ q[1] <= q[2]
    ELSE q[2] <= q[1] /\ q[1] <= -q[2]

\* the values of the pixel the index function works on
Red == Rescale(script, image.red)
Nir == Rescale(script, image.nir)
Swir == Rescale(script, image.swir)

\* the quotient q with a positive divisor
Positive(q) == IF q[2] < 0 THEN <<-q[1], -q[2]>> ELSE q

\* the value of q is above (below) a / b, b > 0: by whole parts, then by the
\* remainders; a quotient with divisor 0 has no value
Above(q, a, b) ==
    /\ q[2] # 0
    /\ LET p == Positive(q)
       IN  \/ p[1] \div p[2] > a \div b
           \/ /\ p[1] \div p[2] = a \div b
              /\ (p[1] % p[2]) * b > (a % b) * p[2]
Below(q, a, b) ==
    /\ q[2] # 0
    /\ LET p == Positive(q)
       IN  \/ p[1] \div p[2] < a \div b
           \/ /\ p[1] \div p[2] = a \div b
              /\ (p[1] % p[2]) * b < (a % b) * p[2]
Equals(q, a, b) == q[2] # 0 /\ ~Above(q, a, b) /\ ~Below(q, a, b)

\* this step appends a record
Appends == Len(results') = Len(results) + 1
Appended == results'[Len(results')]

(***************************************************************************)
(* Properties                                                              *)
(***************************************************************************)
\* C1: hybrid fusion: when an optical mask and a radar mask both exist and the
\* optical cloud percentage is at or above 30, the record emitted for the
\* month is labelled 'Radar only' and its area is that of the radar mask alone.
C1_CloudyOpticalYieldsRadarOnly ==
    [][(/\ script = HybridScript
        /\ ~IsNone(optical_mask) /\ ~IsNone(radar_mask)
        /\ ~IsNone(cloud) /\ Val(cloud) >= HybridAcceptance
        /\ Appends)
       => (/\ Appended.Year = Year /\ Appended.Month = Month
           /\ Appended.Source = "Radar only"
           /\ Appended.Area = Round2(MaskArea(Val(radar_mask)), 10000))]_vars

\* C1 witness: a 'Radar only' record that carries an optical image's date and
\* a cloud percentage of at least 30
C1_Witness ==
    /\ script = HybridScript
    /\ \E k \in 1..Len(results) :
         /\ results[k].Source = "Radar only"
         /\ results[k].Date # StrRadarOnly
         /\ results[k].Cloud.tag = "num"
         /\ results[k].Cloud.num >= 3000

\* C2: hybrid fusion: the label 'Hybrid (Optical+Radar)' is given only when the
\* cloud percentage is below 30 and both masks exist; with exactly one mask the
\* record is labelled with that single source.
C2_LabelMatchesMasks ==
    (script = HybridScript /\ pc \in {"area", "date"}) =>
        /\ source = "Hybrid (Optical+Radar)" =>
              (/\ ~IsNone(optical_mask) /\ ~IsNone(radar_mask)
               /\ ~IsNone(cloud) /\ Val(cloud) < HybridAcceptance)
        /\ (~IsNone(optical_mask) /\ IsNone(radar_mask)) => source = "Optical only"
        /\ (IsNone(optical_mask) /\ ~IsNone(radar_mask)) => source = "Radar only"

\* C3: in every monthly area script a remote request that raises while a month
\* is processed skips that month only: it never ends the run.
C3_RemoteFailureSkipsOnlyThatMonth ==
    script \in AreaScripts =>
        \A i \in 1..NumJobs : "fail" \in obs[i] => ~AbortedIn(i)

\* C4: in every monthly area script a month whose filtered collection has size
\* zero gets no record and does not stop the run.
C4_EmptyMonthIsSkipped ==
    script \in AreaScripts =>
        \A i \in 1..NumJobs :
            "empty" \in obs[i] =>
                /\ ~HasRecord(results, i)
                /\ ~HasRecord(Rows, i)
                /\ ~AbortedIn(i)

\* C4 witness: a month was empty and a later month of the run has a record
C4_Witness ==
    /\ script \in AreaScripts
    /\ \E i, j \in 1..NumJobs :
         i < j /\ "empty" \in obs[i] /\ HasRecord(results, j)

\* C5: the date range given to the collection filter for (year, month) is the
\* half-open calendar month [first day, first day of the next month).
C5_WindowIsCalendarMonth ==
    (script \in AreaScripts /\ pc \notin {"start", "loop", "export", "done", "aborted"}) =>
        /\ ParseDate(start_date) = <<Year, Month, 1>>
        /\ ParseDate(end_date) = NextMonthFirst(Year, Month)

\* C6: in every monthly area script the result list and the exported table
\* hold at most one record per (Year, Month).
C6_OneRecordPerMonth ==
    script \in AreaScripts => OnePerMonth(results) /\ OnePerMonth(Rows)

\* C6 witness: a table of several records was exported
C6_Witness ==
    /\ script \in AreaScripts
    /\ pc = "done"
    /\ Len(Rows) >= 2

\* C7: every row exported by the rainfall and temperature/humidity scripts
\* carries values: no row is written with None.
C7_ClimateRowsCarryValues ==
    script \in ClimateScripts =>
        \A k \in 1..Len(Rows) :
            IF script = RainfallScript
            THEN Rows[k].Total.tag = "num"
            ELSE /\ Rows[k].Min.tag = "num"
                 /\ Rows[k].Max.tag = "num"
                 /\ Rows[k].Mean.tag = "num"

\* C8: in every monthly area script a month whose region reduction returns
\* null is skipped: the run goes on and the exported table has no record of it.
C8_NullReductionSkipsMonth ==
    script \in AreaScripts =>
        \A i \in 1..NumJobs :
            "null" \in obs[i] => (~HasRecord(Rows, i) /\ ~AbortedIn(i))

\* C9: in each optical area script a month whose reduction returns the number
\* 0 gets a record with area 0; it is not skipped.
C9_ZeroAreaIsARecord ==
    script \in OpticalScripts =>
        \A i \in 1..NumJobs :
            ("zero" \in obs[i] /\ i < idx) =>
                /\ \E k \in 1..Len(results) :
                     /\ results[k].Year = JobYear(script, i)
                     /\ results[k].Month = JobMonth(i)
                     /\ results[k].Area = 0
                /\ pc = "done" =>
                     \E k \in 1..Len(Rows) :
                       /\ Rows[k].Year = JobYear(script, i)
                       /\ Rows[k].Month = JobMonth(i)
                       /\ Rows[k].Area = 0

\* C9 witness: a zero reduction was answered and the table was exported
C9_Witness ==
    /\ script \in OpticalScripts
    /\ pc = "done"
    /\ \E i \in 1..NumJobs : "zero" \in obs[i]

\* C10: the optical export's sort by the date string puts the rows in
\* ascending (Year, Month) order whatever the order of the result list, and
\* keeps every row.
C10_DateSortIsYearMonthSort ==
    (script \in OpticalScripts /\ pc = "done") =>
        /\ Ascending(Rows)
        /\ Len(Rows) = Len(results)
        /\ {Rows[k] : k \in 1..Len(Rows)} = {results[k] : k \in 1..Len(results)}

\* C10 witness: a result list whose first two records are out of order across
\* two years was exported
C10_Witness ==
    /\ script \in OpticalScripts
    /\ pc = "done"
    /\ Len(results) >= 2
    /\ results[2].Year < results[1].Year

\* C11: the tables exported by the hybrid-fusion, radar, rainfall and
\* temperature/humidity scripts, which are written without a sort, have their
\* rows in ascending (Year, Month) order (strictly ascending where the table
\* holds one row per month).
C11_UnsortedExportsAscend ==
    script \in {HybridScript, RadarScript} \cup ClimateScripts =>
        /\ NonDescending(Rows)
        /\ script # TemperatureScript => Ascending(Rows)

\* C11 witness: one of these scripts exported a table with rows of two years
C11_Witness ==
    /\ script \in {HybridScript, RadarScript} \cup ClimateScripts
    /\ pc = "done"
    /\ Len(Rows) >= 2
    /\ Rows[1].Year < Rows[Len(Rows)].Year

\* C12: each (year, month) job of an optical area script runs its steps in the
\* order filter, size check, mean quality, median composite, mask, reduce, runs
\* no step twice, and ends in exactly one of: skipped as empty, skipped as
\* failed / no value, one record appended; a record is appended only if the
\* reduce step returned a value.
C12_OpticalJobStepsAndOutcome ==
    script \in OpticalScripts =>
        \A i \in 1..NumJobs :
            /\ IsPrefix(steps[i], StepOrder)
            /\ i < idx => Cardinality(Outcomes(i)) = 1
            /\ RecordCount(results, i) > 0 =>
                  (steps[i] = StepOrder /\ obs[i] \cap {"value", "zero"} # {})

\* C12 witness: one run of an optical script in which a job was skipped as
\* empty, a job was skipped as failed and a job appended a record
C12_Witness ==
    /\ script \in OpticalScripts
    /\ \E i, j, k \in 1..NumJobs :
         /\ i < idx /\ j < idx /\ k < idx
         /\ Outcomes(i) = {"empty"}
         /\ Outcomes(j) = {"failed"} /\ Len(steps[j]) > 2
         /\ Outcomes(k) = {"record"}

\* C13: in every monthly area script the jobs are started in strictly ascending
\* (year, month) order, a job is started only after the previous one reached
\* its terminal outcome, and each (year, month) of the year range x
\* {10, 11, 12} is started exactly once: a run that loaded its region and has
\* ended has started every one of them.
C13_EveryMonthStartedOnceInOrder ==
    script \in AreaScripts =>
        /\ StartedInOrder
        /\ (roi # "" /\ pc \in {"export", "done", "aborted"}) =>
              {started[k] : k \in 1..Len(started)} = Requested(script)

\* C14: when every remote source fails or returns no data (evapotranspiration:
\* no source yields records; water level: nothing is downloaded or no record
\* parses), the run ends in an error state and exports no table; no exported
\* table holds generated values.
C14_NoDataEndsInError ==
    script \in {EvapScript, WaterLevelScript} =>
        /\ (pc \in {"done", "aborted"} /\ NoRemoteData) =>
              (pc = "aborted" /\ IsNone(exported))
        /\ ~IsNone(exported) => provenance # "synthetic"

\* C15: if the region-of-interest file is missing or cannot be parsed, the run
\* stops at startup: no (year, month) is processed, no substitute region is
\* used and no output table is written.
C15_MissingRegionStopsRun ==
    (script \in MonthlyScripts \cup {EvapScript} /\ roi_file # "ok") =>
        /\ pc \in {"start", "aborted"}
        /\ roi = ""
        /\ started = <<>> /\ fetched = <<>>
        /\ IsNone(exported)

\* C16: when a run of a monthly area script completes, every requested
\* (year, month) is exactly one of succeeded (one record) and skipped, records
\* + skipped = requested, and the closing message of the run reports the
\* totals: months requested, succeeded and skipped.
C16_SummaryReportsTotals ==
    (script \in AreaScripts /\ pc = "done") =>
        /\ Accounted
        /\ final_print.totals = <<NumJobs, Len(Rows), NumJobs - Len(Rows)>>

\* C17 (as claimed): for the NDVI computed per image by the Landsat scripts (on
\* rescaled bands) and by the Sentinel-2 scripts (on raw digital numbers), for
\* every pair of band values in the sensor's digital-number range with
\* nir + red # 0, the NDVI lies in [-1, 1].
C17_NdviInUnitInterval ==
    (script \in NdviScripts /\ indices # <<>> /\ Nir + Red # 0) =>
        InUnitInterval(indices[1].ndvi)

\* C17 (amended): the NDVI lies in [-1, 1] for every pair of band values in
\* the digital-number range with nir + red # 0 whose values, as the function
\* uses them, are not negative (Landsat: digital numbers of 7273 and above;
\* Sentinel-2: every digital number).
C17_NdviInUnitIntervalNonNegative ==
    (script \in NdviScripts /\ indices # <<>> /\ Nir + Red # 0
     /\ Nir >= 0 /\ Red >= 0) =>
        InUnitInterval(indices[1].ndvi)

\* C17 witness: a Landsat NDVI computed from two different non-negative
\* reflectances
C17_Witness ==
    /\ script = "NDVI_FAI_Landsat"
    /\ indices # <<>>
    /\ Nir >= 0 /\ Red >= 0 /\ Nir # Red
    /\ indices[1].ndvi = <<Nir - Red, Nir + Red>>

\* C18: every FAI computation equals
\*   nir - (red + (swir - red) * (l_nir - l_red) / (l_swir - l_red))
\* on the bands it is given (stated with both sides multiplied by
\* l_swir - l_red), and so yields exactly 0 whenever red = nir = swir.
C18_FaiIsBaselineDifference ==
    (script \in IndexScripts /\ indices # <<>>) =>
        LET wl == Wavelengths(script)
            fai == indices[1].fai
        IN  /\ fai[2] = wl[3] - wl[1]
            /\ fai[1] + (Swir - Red) * (wl[2] - wl[1]) = (Nir - Red) * (wl[3] - wl[1])
            /\ (image.red = image.nir /\ image.nir = image.swir) => fai[1] = 0

\* C18 witness: an FAI of 0 computed from three equal band values, and an FAI
\* other than 0 computed by the same function
C18_Witness ==
    /\ script \in IndexScripts
    /\ indices # <<>>
    /\ image.red = image.nir /\ image.nir = image.swir /\ image.red > 1
    /\ indices[1].fai[1] = 0

\* the red, NIR and SWIR wavelengths of the sensor whose imagery script s
\* reads, in nanometres
SensorWavelengths(s) ==
    IF s \in LandsatScripts THEN <<655, 865, 1609>> ELSE <<665, 842, 1610>>

\* C19: the FAI wavelengths are fixed per sensor: every FAI computed on
\* Sentinel-2 imagery (the hybrid script's add_indices included) is the FAI of
\* 665 / 842 / 1610 nm for every (B4, B8, B11), and every FAI computed on
\* Landsat imagery is the FAI of 655 / 865 / 1609 nm.  Both quotients are
\* over l_swir - l_red of the same sensor, so they are compared as pairs.
C19_FaiWavelengthsFixedPerSensor ==
    (script \in IndexScripts /\ indices # <<>>) =>
        indices[1].fai = Fai(Red, Nir, Swir, SensorWavelengths(script))

\* the raster c is the pixel-wise median of every image that passed the filter
MedianOfAllFiltered(c) == c.method = "median" /\ c.images = c.of

\* C20: in every area-estimation variant (optical, radar, hybrid) the raster
\* thresholded into the mask is the pixel-wise median of all images that passed
\* the month's filter; none is a single selected image or a mosaic.
C20_MaskComesFromMedianOfAll ==
    script \in AreaScripts => \A c \in composites : MedianOfAllFiltered(c)

\* C21: hybrid script: a record's 'Cloud Cover Percentage' is 'N/A' exactly
\* when no optical image was obtained for the month; whenever an optical image
\* was found the field holds its cloud percentage as a number, 0 included.
C21_CloudIsNAOnlyWithoutOpticalImage ==
    [][(script = HybridScript /\ Appends) =>
          /\ (Appended.Cloud = StrCell(StrNA)) <=> IsNone(optical_mask)
          /\ ~IsNone(optical_mask) =>
                Appended.Cloud = NumCell(Round2(Val(cloud), 10))]_vars

\* C22: when no month of a run yielded a record, the export step of the
\* optical and hybrid scripts still completes: a table of zero rows is written
\* and the run does not fail before the file is written.
C22_EmptyRunStillExports ==
    [][(/\ script \in OpticalScripts \cup {HybridScript}
        /\ pc = "export"
        /\ results = <<>>)
       => (pc' = "done" /\ exported' = Some(<<>>) /\ err' = "")]_vars

\* C23: in both triple-index scripts (FAI-NDVI-SWIR Sentinel-2 and the hybrid
\* script) the SWIR band the threshold is compared with is the reflectance,
\* digital number / 10000, so the Sentinel-2 pixel with digital numbers
\* red = 1000, nir = 3000, swir = 500 is masked as hyacinth by both.
C23_SwirThresholdOnReflectance ==
    (script \in SwirScripts /\ fai_mask # <<>>) =>
        /\ indices[1].swir = <<image.swir, 10000>>
        /\ (image.red = 1000 /\ image.nir = 3000 /\ image.swir = 500) =>
              fai_mask = <<1>>

\* C24: in each optical script the mask value of a pixel is 1 if and only if
\* all of the script's threshold predicates hold on the composite at that pixel,
\* with strict inequalities, and 0 otherwise: FAI > 0.005 (FAI-Landsat);
\* NDVI > 0.3 and FAI > 0.002 (NDVI-FAI scripts); FAI > 0.002 and NDWI < 0
\* (NDWI-FAI-Landsat); FAI > 0.002 and NDVI > 0.3 and SWIR < 0.08
\* (FAI-NDVI-SWIR Sentinel).  The Landsat bands are in units of 1/400000, in
\* which 0.005 is 2000 and 0.002 is 800.
C24_MaskIsStrictConjunction ==
    (script \in OpticalScripts /\ fai_mask # <<>>) =>
        LET c == indices[1]
            all ==
              CASE script = "FAI_Landsat" -> Above(c.fai, 2000, 1)
                [] script = "NDVI_FAI_Landsat" ->
                      Above(c.ndvi, 3, 10) /\ Above(c.fai, 800, 1)
                [] script = "NDVI_FAI_Sentinel" ->
                      Above(c.ndvi, 3, 10) /\ Above(c.fai, 2, 1000)
                [] script = "NDWI_FAI_Landsat" ->
                      Above(c.fai, 800, 1) /\ Below(c.ndwi, 0, 1)
                [] script = "FAI_NDVI_SWIR_Sentinel" ->
                      Above(c.fai, 2, 1000) /\ Above(c.ndvi, 3, 10)
                      /\ Below(c.swir, 8, 100)
        IN  fai_mask = <<IF all THEN 1 ELSE 0>>

\* C24 witness: a pixel whose NDVI is exactly 0.3 and whose FAI is above the
\* threshold, left out of the mask
C24_Witness ==
    /\ script = "NDVI_FAI_Sentinel"
    /\ fai_mask = <<0>>
    /\ Equals(indices[1].ndvi, 3, 10)
    /\ Above(indices[1].fai, 2, 1000)

\* C25: the cloud percentage (before rounding) of every record an optical
\* median-composite script appends is at least 0 and strictly below the filter
\* threshold 20; every record of the hybrid script labelled
\* 'Hybrid (Optical+Radar)' has a cloud percentage strictly below 30.
C25_RecordedCloudBelowThreshold ==
    [][/\ (script \in OpticalScripts /\ Appends) =>
             (~IsNone(cloud) /\ 0 <= Val(cloud) /\ Val(cloud) < 20000)
       /\ (script = HybridScript /\ Appends
           /\ Appended.Source = "Hybrid (Optical+Radar)") =>
             (~IsNone(cloud) /\ Val(cloud) < 30000)]_vars

\* C25 witness: an optical record with a cloud percentage above 0
C25_Witness ==
    /\ script \in OpticalScripts
    /\ \E k \in 1..Len(results) : results[k].Cloud = Round2(NominalCloud, 10)

\* C26: the result list of every monthly area script is append-only: no step
\* of a month changes or removes a record appended for an earlier month, a
\* record appended is the record of the month being processed, and a month
\* that fails leaves the list as it was before the month started.
C26_ResultsAppendOnly ==
    [][(script \in AreaScripts) =>
          /\ IsPrefix(results, results')
          /\ Len(results') <= Len(results) + 1
          /\ Appends => (Appended.Year = Year /\ Appended.Month = Month)
          /\ (pc # "start" /\ idx <= NumJobs /\ pc' = "aborted") =>
                (RecordCount(results', idx) = 0)]_vars

\* every (year, month) job has reached a terminal outcome and the export step
\* is being started
ExportStarted == pc = "export" /\ idx = NumJobs + 1 /\ \A i \in 1..NumJobs : Terminal(i)

\* the export step is entered only after the last job, and left for good
ExportOnce ==
    [][/\ (pc # "export" /\ pc' = "export") => idx' = NumJobs + 1
       /\ pc = "export" => pc' \in {"done", "aborted"}
       /\ pc \in {"done", "aborted"} => pc' = pc]_vars

\* C27: assuming every remote call returns, a run of each optical area script
\* terminates: from the start of its monthly loop every (year, month) job
\* eventually reaches a terminal outcome and the export step is eventually
\* started, exactly once, after the last month's job has finished.
C27_OpticalRunReachesExport ==
    /\ (roi # "" /\ pc = "loop" /\ idx = 1) ~> ExportStarted
    /\ <>(pc \in {"done", "aborted"})
    /\ ExportOnce

\* C27 witness: a run that came to its end through the export step with
\* some month skipped and some month recorded
C27_Witness ==
    /\ script \in OpticalScripts
    /\ pc = "done"
    /\ \E i, j \in 1..NumJobs : RecordCount(results, i) = 0 /\ RecordCount(results, j) = 1

\* C28: the temperature and humidity script appends one row per (year, month,
\* variable), in loop order and whatever the remote answers were, and the Min,
\* Max and Mean of a row are all three numbers or all three None
RowOfCombination(k) ==
    [job |-> ((k - 1) \div Len(Variables)) + 1,
     variable |-> Variables[((k - 1) % Len(Variables)) + 1]]

UniformRow(r) ==
    \/ r.Min.tag = "num" /\ r.Max.tag = "num" /\ r.Mean.tag = "num"
    \/ r.Min = NoneCell /\ r.Max = NoneCell /\ r.Mean = NoneCell

C28_OneUniformRowPerVariable ==
    (script = TemperatureScript) =>
        /\ \A k \in 1..Len(results) :
             LET c == RowOfCombination(k) IN
             /\ results[k].Year = JobYear(script, c.job)
             /\ results[k].Month = JobMonth(c.job)
             /\ results[k].Variable = c.variable.name
             /\ UniformRow(results[k])
        /\ pc \in {"loop", "stat"} =>
             Len(results) = (idx - 1) * Len(Variables) + (vi - 1)
        /\ pc \in {"export", "done"} => Len(results) = NumJobs * Len(Variables)

\* a finished run in which one statistic of a humidity band was null after
\* another was obtained, next to rows that carry three numbers
C28_Witness ==
    /\ script = TemperatureScript
    /\ pc = "done"
    /\ \E k \in 1..Len(results) :
         /\ ~RowOfCombination(k).variable.kelvin
         /\ results[k].Min = NoneCell
         /\ "null" \in obs[RowOfCombination(k).job]
    /\ \E k \in 1..Len(results) : results[k].Min.tag = "num"

\* C29: in the single-month raster export script the export tasks are
\* started only when the month's filtered collection is non-empty and the
\* month's area was computed (its record stands in results)
C29_ExportOnlyAfterAreaComputed ==
    (script = ExportImageScript /\ tasks # {}) =>
        /\ coll # {}
        /\ Len(results) = 1

\* C30: get_lake_tana_station always returns a station id (never None): the
\* id of the first de-duplicated candidate when the searches found any,
\* otherwise one of the known ids (the first whose probe answered 200, or the
\* default, the first of the list)
C30_StationIdIsNeverNull ==
    [][(script = WaterLevelScript /\ pc = "station") =>
          /\ station' # None
          /\ (station # <<>>) => station' = Head(station)
          /\ (station = <<>>) => \E k \in 1..Len(KnownIds) : station' = Some(KnownIds[k])]_vars

====
